---- MODULE Spec2Model ----
(***************************************************************************)
(* Query, sort, series-sequence and search pipeline of                     *)
(* server/controllers/LibraryController.js.                                *)
(*                                                                         *)
(* JavaScript strings are modelled as sequences of one-character strings   *)
(* (so "10" is <<"1","0">>), which lets the model parse and print them the  *)
(* way the runtime does.                                                    *)
(***************************************************************************)
EXTENDS Integers, Sequences, FiniteSets, TLC

VARIABLES handler, pc, req, Database, inheritedNumBooks, local, res

vars == <<handler, pc, req, Database, inheritedNumBooks, local, res>>

\* undefined and null, written so that they compare with strings
undefined == <<"undefined">>
null == <<"null">>

(***************************************************************************)
(* Bounds of the model.                                                    *)
(***************************************************************************)
\* search: number of library items in the accessible item set
MaxItems == 2
\* search: total number of series/author/tag/narrator references carried by
\* the match results of one request
MaxRefs == 3

(***************************************************************************)
(* Strings.                                                                *)
(***************************************************************************)
Digits == {"0", "1", "2", "3", "4", "5", "6", "7", "8", "9"}

DigitValue(c) ==
    CASE c = "0" -> 0 [] c = "1" -> 1 [] c = "2" -> 2 [] c = "3" -> 3
      [] c = "4" -> 4 [] c = "5" -> 5 [] c = "6" -> 6 [] c = "7" -> 7
      [] c = "8" -> 8 [] c = "9" -> 9

DigitChar(d) == <<"0", "1", "2", "3", "4", "5", "6", "7", "8", "9">>[d + 1]

AllDigits(s) == \A i \in 1..Len(s) : s[i] \in Digits

\* value of a string of decimal digits
RECURSIVE DigitsValue(_)
DigitsValue(s) ==
    IF s = <<>> THEN 0
    ELSE 10 * DigitsValue(SubSeq(s, 1, Len(s) - 1)) + DigitValue(s[Len(s)])

\* decimal digits of a natural number, as Number.prototype.toString prints it
RECURSIVE NatToString(_)
NatToString(n) ==
    IF n < 10 THEN <<DigitChar(n)>>
    ELSE NatToString(n \div 10) \o <<DigitChar(n % 10)>>

\* the sequences over S of length exactly n, and of length at most n
RECURSIVE SeqsOfLen(_, _)
SeqsOfLen(S, n) ==
    IF n = 0 THEN {<<>>}
    ELSE {Append(s, x) : s \in SeqsOfLen(S, n - 1), x \in S}

SeqsUpTo(S, n) == UNION {SeqsOfLen(S, k) : k \in 0..n}

\* the elements of a list at the positions of S, in ascending or descending
\* order of position
RECURSIVE Pick(_, _, _)
Pick(list, S, ascending) ==
    IF S = {} THEN <<>>
    ELSE LET i == CHOOSE x \in S : \A y \in S : IF ascending THEN x <= y ELSE x >= y
         IN  <<list[i]>> \o Pick(list, S \ {i}, ascending)

(***************************************************************************)
(* JavaScript built-ins used by the handlers.                              *)
(***************************************************************************)
\* isNaN(v) of a query-string value: Number(v) is a number when v is the empty
\* string or decimal digits with an optional sign
isNaN(v) ==
    IF v = undefined THEN TRUE
    ELSE IF v = <<>> \/ AllDigits(v) THEN FALSE
    ELSE ~(v[1] = "-" /\ Len(v) > 1 /\ AllDigits(Tail(v)))

\* Number(v) where isNaN(v) is false
Number(v) ==
    IF v = <<>> THEN 0
    ELSE IF v[1] = "-" THEN 0 - DigitsValue(Tail(v))
    ELSE DigitsValue(v)

\* a value in boolean position: undefined and the empty string are falsy
Truthy(v) == v # undefined /\ v # null /\ v # <<>>

\* Array.prototype.slice(start, end): a negative index counts from the end
RelativeIndex(i, len) ==
    IF i < 0 THEN (IF len + i < 0 THEN 0 ELSE len + i)
    ELSE (IF i > len THEN len ELSE i)

slice(arr, start, end) ==
    LET from == RelativeIndex(start, Len(arr))
        to == RelativeIndex(end, Len(arr))
    IN  IF from < to THEN SubSeq(arr, from + 1, to) ELSE <<>>

\* names every plain object inherits from Object.prototype
constructor == <<"c", "o", "n", "s", "t", "r", "u", "c", "t", "o", "r">>
toString == <<"t", "o", "S", "t", "r", "i", "n", "g">>
valueOf == <<"v", "a", "l", "u", "e", "O", "f">>
ObjectPrototypeKeys == {constructor, toString, valueOf}

\* An object literal {} used as a map: its own keys in creation order and
\* their values.
EmptyObject == [keys |-> <<>>, val |-> <<>>]

KeyIndex(o, k) ==
    IF \E i \in 1..Len(o.keys) : o.keys[i] = k
    THEN CHOOSE i \in 1..Len(o.keys) : o.keys[i] = k
    ELSE 0

HasOwn(o, k) == KeyIndex(o, k) # 0

\* o[k] in boolean position: an own property (always an object here) or a
\* property inherited from Object.prototype
HasProperty(o, k) == HasOwn(o, k) \/ k \in ObjectPrototypeKeys

GetOwn(o, k) == o.val[KeyIndex(o, k)]

\* o[k] = v
SetProperty(o, k, v) ==
    IF HasOwn(o, k)
    THEN [o EXCEPT !.val[KeyIndex(o, k)] = v]
    ELSE [keys |-> Append(o.keys, k), val |-> Append(o.val, v)]

\* order of two decimal numerals without leading zeros: by length, then digit
\* by digit (the values themselves may exceed 32-bit integers)
RECURSIVE NumeralLess(_, _)
NumeralLess(a, b) ==
    IF Len(a) # Len(b) THEN Len(a) < Len(b)
    ELSE IF a = <<>> THEN FALSE
    ELSE IF a[1] # b[1] THEN DigitValue(a[1]) < DigitValue(b[1])
    ELSE NumeralLess(Tail(a), Tail(b))

\* 2^32 - 1, the first integer that is not an array index
ArrayIndexLimit == <<"4", "2", "9", "4", "9", "6", "7", "2", "9", "5">>

\* a canonical array index: decimal digits without a leading zero, below 2^32 - 1
IsArrayIndex(k) ==
    /\ k # <<>>
    /\ AllDigits(k)
    /\ (Len(k) > 1 => k[1] # "0")
    /\ NumeralLess(k, ArrayIndexLimit)

\* positions of the own keys in property order: array indices in ascending
\* numeric order first, then the other keys in creation order
RECURSIVE SortIndexKeys(_, _)
SortIndexKeys(o, left) ==
    IF left = {} THEN <<>>
    ELSE LET i == CHOOSE x \in left :
                     \A y \in left \ {x} : NumeralLess(o.keys[x], o.keys[y])
         IN  <<i>> \o SortIndexKeys(o, left \ {i})

RECURSIVE StringKeysInOrder(_, _)
StringKeysInOrder(o, i) ==
    IF i > Len(o.keys) THEN <<>>
    ELSE (IF IsArrayIndex(o.keys[i]) THEN <<>> ELSE <<i>>) \o StringKeysInOrder(o, i + 1)

OwnKeyOrder(o) ==
    SortIndexKeys(o, {i \in 1..Len(o.keys) : IsArrayIndex(o.keys[i])})
        \o StringKeysInOrder(o, 1)

\* Object.values(o)
ObjectValues(o) == [n \in 1..Len(o.keys) |-> o.val[OwnKeyOrder(o)[n]]]

\* Object.keys(o)
ObjectKeys(o) == [n \in 1..Len(o.keys) |-> o.keys[OwnKeyOrder(o)[n]]]

(***************************************************************************)
(* search (GET: global library search), lines 700-773.                     *)
(***************************************************************************)
DefaultMaxResults == 12

\* const maxResults = req.query.limit && !isNaN(req.query.limit) ? Number(req.query.limit) : 12
maxResults(query) ==
    IF Truthy(query.limit) /\ ~isNaN(query.limit)
    THEN Number(query.limit)
    ELSE DefaultMaxResults

\* the accumulators declared before the scan
NewScan ==
    [itemMatches |-> <<>>,
     authorMatches |-> EmptyObject,
     narratorMatches |-> EmptyObject,
     seriesMatches |-> EmptyObject,
     tagMatches |-> EmptyObject,
     scanned |-> 0,
     inherited |-> {},
     threw |-> FALSE]

pushItemMatch_always(st, li) ==
    [st EXCEPT !.itemMatches =
        Append(@, [libraryItem |-> li.id,
                   matchKey |-> li.queryResult.matchKey,
                   matchText |-> li.queryResult.matchText])]

\* if (queryResult.matchKey) itemMatches.push({ libraryItem, matchKey, matchText })
pushItemMatch(st, li) ==
    IF Truthy(li.queryResult.matchKey)
    THEN [st EXCEPT !.itemMatches =
             Append(@, [libraryItem |-> li.id,
                        matchKey |-> li.queryResult.matchKey,
                        matchText |-> li.queryResult.matchText])]
    ELSE st

\* body of queryResult.series.forEach; reading .books of an inherited
\* property gives undefined and the push throws a TypeError
seriesRef(db, st, li, id) ==
    IF ~HasProperty(st.seriesMatches, id)
    THEN IF id \in db.series
         THEN [st EXCEPT !.seriesMatches =
                  SetProperty(@, id, [series |-> id, books |-> <<li.id>>])]
         ELSE st
    ELSE IF HasOwn(st.seriesMatches, id)
         THEN [st EXCEPT !.seriesMatches =
                  SetProperty(@, id, [GetOwn(@, id) EXCEPT !.books = Append(@, li.id)])]
         ELSE [st EXCEPT !.threw = TRUE]

\* body of queryResult.authors.forEach; numBooks++ on an inherited property
\* reads and writes the numBooks of that inherited object, which every
\* invocation shares, and leaves authorMatches without an entry; inherited
\* holds the names it was done for
authorRef(db, st, li, id) ==
    IF ~HasProperty(st.authorMatches, id)
    THEN IF id \in db.authors
         THEN [st EXCEPT !.authorMatches =
                  SetProperty(@, id, [id |-> id, numBooks |-> 1])]
         ELSE st
    ELSE IF HasOwn(st.authorMatches, id)
         THEN [st EXCEPT !.authorMatches =
                  SetProperty(@, id, [GetOwn(@, id) EXCEPT !.numBooks = @ + 1])]
         ELSE [st EXCEPT !.inherited = @ \cup {id}]

\* body of queryResult.tags.forEach
tagRef(db, st, li, tag) ==
    IF ~HasProperty(st.tagMatches, tag)
    THEN [st EXCEPT !.tagMatches =
             SetProperty(@, tag, [name |-> tag, books |-> <<li.id>>])]
    ELSE IF HasOwn(st.tagMatches, tag)
         THEN [st EXCEPT !.tagMatches =
                  SetProperty(@, tag, [GetOwn(@, tag) EXCEPT !.books = Append(@, li.id)])]
         ELSE [st EXCEPT !.threw = TRUE]

\* body of queryResult.narrators.forEach
narratorRef(db, st, li, narrator) ==
    IF ~HasProperty(st.narratorMatches, narrator)
    THEN [st EXCEPT !.narratorMatches =
             SetProperty(@, narrator, [name |-> narrator, books |-> <<li.id>>])]
    ELSE IF HasOwn(st.narratorMatches, narrator)
         THEN [st EXCEPT !.narratorMatches =
                  SetProperty(@, narrator, [GetOwn(@, narrator) EXCEPT !.books = Append(@, li.id)])]
         ELSE [st EXCEPT !.threw = TRUE]

\* list.forEach(ref) for one facet; a thrown error leaves the loop
RECURSIVE forEachRef(_, _, _, _, _, _)
forEachRef(facet, db, st, li, list, i) ==
    IF st.threw \/ i > Len(list) THEN st
    ELSE LET next ==
                 CASE facet = "series" -> seriesRef(db, st, li, list[i])
                   [] facet = "authors" -> authorRef(db, st, li, list[i])
                   [] facet = "tags" -> tagRef(db, st, li, list[i])
                   [] facet = "narrators" -> narratorRef(db, st, li, list[i])
         IN  forEachRef(facet, db, next, li, list, i + 1)

\* the callback of libraryItems.forEach, lines 713-763
scanItem(db, st, li) ==
    LET s0 == pushItemMatch([st EXCEPT !.scanned = @ + 1], li)
        s1 == forEachRef("series", db, s0, li, li.queryResult.series, 1)
        s2 == forEachRef("authors", db, s1, li, li.queryResult.authors, 1)
        s3 == forEachRef("tags", db, s2, li, li.queryResult.tags, 1)
    IN  forEachRef("narrators", db, s3, li, li.queryResult.narrators, 1)

\* libraryItems.forEach(...)
RECURSIVE scan(_, _, _, _)
scan(db, st, libraryItems, i) ==
    IF st.threw \/ i > Len(libraryItems) THEN st
    ELSE scan(db, scanItem(db, st, libraryItems[i]), libraryItems, i + 1)

\* the result envelope, lines 764-771; the key of the first array is the
\* library's media type
results(st, n) ==
    [items |-> slice(st.itemMatches, 0, n),
     tags |-> slice(ObjectValues(st.tagMatches), 0, n),
     authors |-> slice(ObjectValues(st.authorMatches), 0, n),
     series |-> slice(ObjectValues(st.seriesMatches), 0, n),
     narrators |-> slice(ObjectValues(st.narratorMatches), 0, n)]

NoResponse == [status |-> 0, body |-> null]

\* the numBooks property of the objects a {} literal inherits: absent at
\* first; undefined++ leaves NaN
NoInheritedNumBooks == [k \in ObjectPrototypeKeys |-> undefined]

incremented(numBooks, names) ==
    [k \in ObjectPrototypeKeys |-> IF k \in names THEN "NaN" ELSE numBooks[k]]

noQueryString_onlyUndefined(query) == query.q = undefined

\* if (!req.query.q)
noQueryString(query) == ~Truthy(query.q)

\* what the handler sends after the scan st: a TypeError escaping the scan
\* (the framework answers with status 500) or the envelope
respond(query, st) ==
    IF st.threw
    THEN [status |-> 500, body |-> "TypeError"]
    ELSE [status |-> 200, body |-> results(st, maxResults(query))]

\* the handler
search ==
    /\ handler = "search"
    /\ pc = "request"
    /\ pc' = "responded"
    /\ IF noQueryString(req.query)
       THEN /\ res' = [status |-> 400, body |-> "No query string"]
            /\ local' = local
            /\ inheritedNumBooks' = inheritedNumBooks
       ELSE /\ local' = scan(Database, NewScan, req.libraryItems, 1)
            /\ res' = respond(req.query, local')
            /\ inheritedNumBooks' = incremented(inheritedNumBooks, local'.inherited)
    /\ UNCHANGED <<handler, req, Database>>

(***************************************************************************)
(* Requests of search.                                                     *)
(***************************************************************************)
\* keys of the requests: plain strings, strings of decimal digits and a name
\* inherited from Object.prototype
TagStrings == {<<"a">>, <<"b">>, <<"7">>, constructor}
NarratorStrings == {<<"a">>, <<"7">>, constructor}
SeriesIds == {<<"a">>, <<"b">>, <<"7">>, constructor}
AuthorIds == {<<"a">>, <<"b">>, <<"7">>, <<"1", "0">>, constructor}
\* ids present in the canonical tables (<<"b">> is in neither)
SeriesTable == {<<"a">>, <<"7">>}
AuthorTable == {<<"a">>, <<"7">>, <<"1", "0">>}

QueryStrings == {undefined, <<>>, <<"x">>}
LimitStrings == {undefined, <<"x">>, <<"-", "1">>, <<"1">>, <<"2">>}

Splits(n) == {s \in [1..4 -> 0..n] : s[1] + s[2] + s[3] + s[4] = n}

\* match results carrying exactly n references
QueryResultsWith(n) ==
    UNION {[matchKey : {undefined, <<"t">>},
            matchText : {<<"T">>},
            series : SeqsOfLen(SeriesIds, s[1]),
            authors : SeqsOfLen(AuthorIds, s[2]),
            tags : SeqsOfLen(TagStrings, s[3]),
            narrators : SeqsOfLen(NarratorStrings, s[4])] : s \in Splits(n)}

\* lists of k match results carrying at most n references in total
RECURSIVE QueryResultLists(_, _)
QueryResultLists(k, n) ==
    IF k = 0 THEN {<<>>}
    ELSE UNION {{Append(l, qr) : l \in QueryResultLists(k - 1, n - m),
                                 qr \in QueryResultsWith(m)} : m \in 0..n}

LibraryItemsOf(l) == [i \in 1..Len(l) |-> [id |-> i, queryResult |-> l[i]]]

InitSearch ==
    /\ handler = "search"
    /\ pc = "request"
    /\ \E k \in 0..MaxItems :
         \E l \in QueryResultLists(k, MaxRefs) :
           \E q \in QueryStrings, limit \in LimitStrings :
             req = [query |-> [q |-> q, limit |-> limit],
                    libraryItems |-> LibraryItemsOf(l)]
    /\ Database = [series |-> SeriesTable, authors |-> AuthorTable]
    /\ local = NewScan
    /\ res = NoResponse
    /\ inheritedNumBooks = NoInheritedNumBooks

NextSearch == search

SpecSearch == InitSearch /\ [][NextSearch]_vars

(***************************************************************************)
(* The natural comparer handed to createNewSortInstance (lines 8-11) and   *)
(* the sort instance it builds.  The sort library and the collator are not *)
(* part of the controller; they are modelled from their description: a     *)
(* case-insensitive comparison in which runs of digits compare by value,   *)
(* applied by a stable sort.                                               *)
(***************************************************************************)
\* collation order of the characters that occur in the model's strings
CollationOrder ==
    <<" ", "_", "-", ",", ".", "[", "]", "#", "=", "0", "1", "2", "3", "4", "5", "6", "7", "8", "9",
      "a", "b", "c", "d", "e", "f", "g", "h", "i", "j", "k", "l", "m",
      "n", "o", "p", "q", "r", "s", "t", "u", "v", "w", "x", "y", "z">>

UpperCase == <<"A", "B", "C", "D", "E", "F", "G", "H", "I", "J", "K", "L", "M", "N", "O", "P", "Q", "R", "S", "T", "U", "V", "W", "X", "Y", "Z">>
LowerCase == <<"a", "b", "c", "d", "e", "f", "g", "h", "i", "j", "k", "l", "m", "n", "o", "p", "q", "r", "s", "t", "u", "v", "w", "x", "y", "z">>

\* c.toLowerCase() of one character
Lower(c) ==
    IF \E i \in 1..26 : UpperCase[i] = c
    THEN LowerCase[CHOOSE i \in 1..26 : UpperCase[i] = c]
    ELSE c

CharRank(c) ==
    LET low == Lower(c)
    IN  CHOOSE i \in 1..Len(CollationOrder) : CollationOrder[i] = low

\* length of the run of digits a string starts with
RECURSIVE DigitRun(_)
DigitRun(s) ==
    IF s = <<>> \/ s[1] \notin Digits THEN 0 ELSE 1 + DigitRun(Tail(s))

RECURSIVE StripZeros(_)
StripZeros(s) ==
    IF Len(s) > 1 /\ s[1] = "0" THEN StripZeros(Tail(s)) ELSE s

\* Intl.Collator(undefined, { numeric: true, sensitivity: 'base' }).compare
\* on two strings: -1, 0 or 1
RECURSIVE naturalCompare(_, _)
naturalCompare(a, b) ==
    IF a = <<>> /\ b = <<>> THEN 0
    ELSE IF a = <<>> THEN -1
    ELSE IF b = <<>> THEN 1
    ELSE IF a[1] \in Digits /\ b[1] \in Digits
    THEN LET na == DigitRun(a)
             nb == DigitRun(b)
             ra == StripZeros(SubSeq(a, 1, na))
             rb == StripZeros(SubSeq(b, 1, nb))
         IN  IF NumeralLess(ra, rb) THEN -1
             ELSE IF NumeralLess(rb, ra) THEN 1
             ELSE naturalCompare(SubSeq(a, na + 1, Len(a)), SubSeq(b, nb + 1, Len(b)))
    ELSE LET ca == CharRank(a[1])
             cb == CharRank(b[1])
         IN  IF ca < cb THEN -1
             ELSE IF ca > cb THEN 1
             ELSE naturalCompare(Tail(a), Tail(b))

\* a stable insertion sort of the positions 1..n of a list; before[i][j] says
\* that the element at position i must come before the one at position j
RECURSIVE InsertStable(_, _, _)
InsertStable(sorted, x, before) ==
    IF sorted = <<>> THEN <<x>>
    ELSE IF before[x][sorted[Len(sorted)]]
         THEN Append(InsertStable(SubSeq(sorted, 1, Len(sorted) - 1), x, before),
                     sorted[Len(sorted)])
         ELSE Append(sorted, x)

RECURSIVE StableSort(_, _)
StableSort(n, before) ==
    IF n = 0 THEN <<>>
    ELSE InsertStable(StableSort(n - 1, before), n, before)

\* naturalSort(list).asc() on a list of strings
naturalSortAsc(list) ==
    LET before == [i \in 1..Len(list) |-> [j \in 1..Len(list) |->
                      naturalCompare(list[i], list[j]) < 0]]
        order == StableSort(Len(list), before)
    IN  [k \in 1..Len(list) |-> list[order[k]]]

(***************************************************************************)
(* String operations of the runtime, and the string literals of the code.  *)
(***************************************************************************)
\* s.startsWith(prefix)
startsWith(s, prefix) ==
    Len(prefix) <= Len(s) /\ SubSeq(s, 1, Len(prefix)) = prefix

\* s.includes(sub)
includes(s, sub) ==
    \E i \in 0..(Len(s) - Len(sub)) : SubSeq(s, i + 1, i + Len(sub)) = sub

\* s.replace(sub, ''): the first occurrence of sub is taken out
removeFirst(s, sub) ==
    IF ~includes(s, sub) THEN s
    ELSE LET i == CHOOSE k \in 0..(Len(s) - Len(sub)) :
                     /\ SubSeq(s, k + 1, k + Len(sub)) = sub
                     /\ \A j \in 0..(k - 1) : SubSeq(s, j + 1, j + Len(sub)) # sub
         IN  SubSeq(s, 1, i) \o SubSeq(s, i + Len(sub) + 1, Len(s))

\* s.split(sep) for a one-character separator
RECURSIVE split(_, _)
split(s, sep) ==
    IF \A i \in 1..Len(s) : s[i] # sep THEN <<s>>
    ELSE LET i == CHOOSE k \in 1..Len(s) : s[k] = sep /\ \A j \in 1..(k - 1) : s[j] # sep
         IN  <<SubSeq(s, 1, i - 1)>> \o split(SubSeq(s, i + 1, Len(s)), sep)

str_media == <<"m", "e", "d", "i", "a">>
str_metadata == <<"m", "e", "t", "a", "d", "a", "t", "a">>
str_title == <<"t", "i", "t", "l", "e">>
str_titleIgnorePrefix == <<"t", "i", "t", "l", "e", "I", "g", "n", "o", "r", "e", "P", "r", "e", "f", "i", "x">>
str_authorName == <<"a", "u", "t", "h", "o", "r", "N", "a", "m", "e">>
str_series == <<"s", "e", "r", "i", "e", "s">>
str_addedAt == <<"a", "d", "d", "e", "d", "A", "t">>
str_collapsedSeries == <<"c", "o", "l", "l", "a", "p", "s", "e", "d", "S", "e", "r", "i", "e", "s">>
str_name == <<"n", "a", "m", "e">>
str_nameIgnorePrefix == <<"n", "a", "m", "e", "I", "g", "n", "o", "r", "e", "P", "r", "e", "f", "i", "x">>
str_id == <<"i", "d">>
str_sequence == <<"s", "e", "q", "u", "e", "n", "c", "e">>
str_books == <<"b", "o", "o", "k", "s">>
str_filterSeriesSequence == <<"f", "i", "l", "t", "e", "r", "S", "e", "r", "i", "e", "s", "S", "e", "q", "u", "e", "n", "c", "e">>
str_IgnorePrefix == <<"I", "g", "n", "o", "r", "e", "P", "r", "e", "f", "i", "x">>
str_author == <<"a", "u", "t", "h", "o", "r">>
str_seriesDot == <<"s", "e", "r", "i", "e", "s", ".">>
str_noSeries == <<"n", "o", "-", "s", "e", "r", "i", "e", "s">>
str_book == <<"b", "o", "o", "k">>
str_podcast == <<"p", "o", "d", "c", "a", "s", "t">>
str_rssfeed == <<"r", "s", "s", "f", "e", "e", "d">>
SeriesS1 == <<"s", "1">>
SeriesS2 == <<"s", "2">>
EncodedS1 == <<"c", "z", "E", "=">>
EncodedNoSeries == <<"b", "m", "8", "t", "c", "2", "V", "y", "a", "W", "V", "z">>
str_one == <<"1">>
str_mediaMetadataTitle == <<"m", "e", "d", "i", "a", ".", "m", "e", "t", "a", "d", "a", "t", "a", ".", "t", "i", "t", "l", "e">>
str_mediaMetadataAuthorName == <<"m", "e", "d", "i", "a", ".", "m", "e", "t", "a", "d", "a", "t", "a", ".", "a", "u", "t", "h", "o", "r", "N", "a", "m", "e">>

(***************************************************************************)
(* Values of the runtime: a value carries its type.                        *)
(***************************************************************************)
Str(s) == [t |-> "string", v |-> s]
Num(n) == [t |-> "number", v |-> n]
Undefined == [t |-> "undefined"]
Null == [t |-> "null"]
Obj(f) == [t |-> "object", f |-> f]
Arr(list) == [t |-> "array", v |-> list]
\* the outcome of an expression that threw
TypeError == [t |-> "TypeError"]

\* a[b]: reading a property of undefined or null throws; an object gives its
\* property or undefined; the model's strings, numbers and arrays are only
\* asked for names they do not have
prop(a, b) ==
    IF a.t \in {"undefined", "null", "TypeError"} THEN TypeError
    ELSE IF a.t = "object" /\ b \in DOMAIN a.f THEN a.f[b]
    ELSE Undefined

\* path.reduce((a, b) => a[b], li)
RECURSIVE reducePath(_, _)
reducePath(path, li) ==
    IF path = <<>> THEN li
    ELSE prop(reducePath(SubSeq(path, 1, Len(path) - 1), li), path[Len(path)])

\* a value in boolean position
isTruthy(a) ==
    CASE a.t \in {"undefined", "null"} -> FALSE
      [] a.t = "string" -> a.v # <<>>
      [] a.t = "number" -> a.v # 0
      [] OTHER -> TRUE

\* a || b
or(a, b) == IF isTruthy(a) THEN a ELSE b

\* a?.b
optional(a, b) == IF a.t \in {"undefined", "null"} THEN Undefined ELSE prop(a, b)

(***************************************************************************)
(* Library items and the collaborators of getLibraryItems.  The metadata   *)
(* methods, getFilteredLibraryItems, decode and collapseBookSeries live    *)
(* outside the controller and are modelled from their description.         *)
(***************************************************************************)
seriesMembership(seriesId, seriesName, seq) ==
    Obj((str_id :> Str(seriesId)) @@ (str_name :> Str(seriesName)) @@ (str_sequence :> seq))

\* the name without its leading article ("The ", "A ")
IgnorePrefixOf(t) ==
    LET low == [i \in 1..Len(t) |-> Lower(t[i])]
    IN  IF startsWith(low, <<"t", "h", "e", " ">>) THEN SubSeq(t, 5, Len(t))
        ELSE IF startsWith(low, <<"a", " ">>) THEN SubSeq(t, 3, Len(t))
        ELSE t

\* a book: identity, title (and the title without its leading article),
\* author, series memberships and the added timestamp
Book(n, t, author, memberships, added) ==
    Obj((str_id :> Num(n))
        @@ (str_addedAt :> Num(added))
        @@ (str_media :> Obj(str_metadata :>
               Obj((str_title :> Str(t))
                   @@ (str_titleIgnorePrefix :> Str(IgnorePrefixOf(t)))
                   @@ (str_authorName :> Str(author))
                   @@ (str_series :> Arr(memberships))))))

\* a podcast has no series
Podcast(n, t, author, added) ==
    Obj((str_id :> Num(n))
        @@ (str_addedAt :> Num(added))
        @@ (str_media :> Obj(str_metadata :>
               Obj((str_title :> Str(t))
                   @@ (str_titleIgnorePrefix :> Str(IgnorePrefixOf(t)))
                   @@ (str_author :> Str(author))))))

\* li.media.metadata.series as a list (empty when the item has none)
seriesOf(li) ==
    LET v == reducePath(<<str_media, str_metadata, str_series>>, li)
    IN  IF v.t = "array" THEN v.v ELSE <<>>

\* li.media.metadata.getSeries(seriesId): the membership with that id, or
\* undefined
getSeries(li, seriesId) ==
    LET list == seriesOf(li)
    IN  IF \E i \in 1..Len(list) : list[i].f[str_id].v = seriesId
        THEN list[CHOOSE i \in 1..Len(list) :
                     /\ list[i].f[str_id].v = seriesId
                     /\ \A j \in 1..(i - 1) : list[j].f[str_id].v # seriesId]
        ELSE Undefined

\* li.media.metadata.getSeriesSortTitle(series): the sort-friendly title of a
\* series membership
getSeriesSortTitle(se) == prop(se, str_name)

\* libraryHelpers.decode of the filter values of the model
decode(encoded) ==
    CASE encoded = EncodedS1 -> SeriesS1
      [] encoded = EncodedNoSeries -> str_noSeries
      [] OTHER -> encoded

\* libraryHelpers.getFilteredLibraryItems: a series filter keeps the books of
\* that series (or those without a series); any other filter keeps some of
\* the items, in their order
getFilteredLibraryItems(libraryItems, filterBy) ==
    IF startsWith(filterBy, str_seriesDot)
    THEN LET wanted == decode(removeFirst(filterBy, str_seriesDot))
         IN  {SelectSeq(libraryItems,
                  LAMBDA li : IF wanted = str_noSeries THEN seriesOf(li) = <<>>
                              ELSE getSeries(li, wanted).t # "undefined")}
    ELSE {Pick(libraryItems, S, TRUE) : S \in SUBSET (1..Len(libraryItems))}

\* the view of one series as a collapsed row carries it: its names and its
\* books, each with its position in the filtered series
collapsedSeriesView(seriesId, libraryItems, filterSeries) ==
    LET members == SelectSeq(libraryItems, LAMBDA li : getSeries(li, seriesId).t # "undefined")
        first == getSeries(members[1], seriesId)
    IN  Obj((str_id :> Str(seriesId))
            @@ (str_name :> prop(first, str_name))
            @@ (str_nameIgnorePrefix :> Str(IgnorePrefixOf(prop(first, str_name).v)))
            @@ (str_books :> Arr([i \in 1..Len(members) |->
                   [id |-> members[i].f[str_id].v,
                    filterSeriesSequence |->
                        IF filterSeries # null /\ getSeries(members[i], filterSeries).t # "undefined"
                           /\ prop(getSeries(members[i], filterSeries), str_sequence).t = "string"
                        THEN prop(getSeries(members[i], filterSeries), str_sequence).v
                        ELSE undefined]])))

\* the ids of the series, other than the filtered one, that have books in
\* the list
seriesIdsOf(libraryItems, filterSeries) ==
    {se.f[str_id].v : se \in UNION {{seriesOf(libraryItems[i])[k] :
                                        k \in 1..Len(seriesOf(libraryItems[i]))} :
                                     i \in 1..Len(libraryItems)}} \ {filterSeries}

\* the rows when the series of C are collapsed: the first book of each stands
\* for the series with the view attached, its other books are left out, and
\* every other item stays as it is
RECURSIVE collapseRows(_, _, _, _)
collapseRows(libraryItems, all, C, filterSeries) ==
    IF libraryItems = <<>> THEN <<>>
    ELSE LET li == libraryItems[1]
             mine == {c \in C : getSeries(li, c).t # "undefined"}
             leading == {c \in mine :
                            SelectSeq(all, LAMBDA x : getSeries(x, c).t # "undefined")[1] = li}
             row == IF mine = {} THEN <<li>>
                    ELSE IF leading = {} THEN <<>>
                    ELSE LET c == CHOOSE x \in leading : TRUE
                         IN  <<Obj(li.f @@ (str_collapsedSeries :>
                                     collapsedSeriesView(c, all, filterSeries)))>>
         IN  row \o collapseRows(Tail(libraryItems), all, C, filterSeries)

\* libraryHelpers.collapseBookSeries: which series are collapsed is the
\* collaborator's policy, so every choice is a possible result
collapseBookSeries(libraryItems, filterSeries) ==
    {collapseRows(libraryItems, libraryItems, C, filterSeries) :
        C \in SUBSET seriesIdsOf(libraryItems, filterSeries)}

(***************************************************************************)
(* seriesSequenceList of a collapsed series, lines 374-391.                *)
(***************************************************************************)
\* /^(\d+|\d+\.\d*|\d*\.\d+)$/.test(s)
isNumber(s) ==
    LET n == DigitRun(s)
        rest == SubSeq(s, n + 1, Len(s))
    IN  \/ (n > 0 /\ n = Len(s))
        \/ (n > 0 /\ rest # <<>> /\ rest[1] = "." /\ AllDigits(Tail(rest)))
        \/ (rest # <<>> /\ rest[1] = "." /\ Len(rest) > 1 /\ AllDigits(Tail(rest)))

\* parseFloat(s) of a string that passed the test, in tenths; the model's
\* tokens carry at most one digit after the point
parseFloat(s) ==
    LET n == DigitRun(s)
        frac == SubSeq(s, n + 2, Len(s))
    IN  10 * DigitsValue(SubSeq(s, 1, n)) + (IF frac = <<>> THEN 0 ELSE DigitValue(frac[1]))

\* String(x) of a number given in tenths
NumberToString(x) ==
    IF x % 10 = 0 THEN NatToString(x \div 10)
    ELSE NatToString(x \div 10) \o <<".", DigitChar(x % 10)>>

extendsLastRange_anyLarger(ranges, seq) ==
    /\ ranges # <<>>
    /\ isNumber(seq)
    /\ ranges[Len(ranges)].isNumber
    /\ ranges[Len(ranges)].end + 10 <= parseFloat(seq)

\* lastRange && isNumber && lastRange.isNumber && ((lastRange.end + 1) == currentSequence)
extendsLastRange(ranges, seq) ==
    /\ ranges # <<>>
    /\ isNumber(seq)
    /\ ranges[Len(ranges)].isNumber
    /\ ranges[Len(ranges)].end + 10 = parseFloat(seq)

\* the value a range keeps for a token: the parsed number (in tenths) of a
\* numeric token, the token itself otherwise
rangeValue(seq) == IF isNumber(seq) THEN parseFloat(seq) ELSE seq

reduceSequence_dropsText(ranges, currentSequence) ==
    IF extendsLastRange(ranges, currentSequence)
    THEN [ranges EXCEPT ![Len(ranges)].end = parseFloat(currentSequence)]
    ELSE IF ~isNumber(currentSequence) THEN ranges
    ELSE Append(ranges, [start |-> rangeValue(currentSequence),
                         end |-> rangeValue(currentSequence),
                         isNumber |-> isNumber(currentSequence)])

\* one step of the reducer, lines 376-389
reduceSequence(ranges, currentSequence) ==
    IF extendsLastRange(ranges, currentSequence)
    THEN [ranges EXCEPT ![Len(ranges)].end = parseFloat(currentSequence)]
    ELSE Append(ranges, [start |-> rangeValue(currentSequence),
                         end |-> rangeValue(currentSequence),
                         isNumber |-> isNumber(currentSequence)])

RECURSIVE sequenceRanges(_)
sequenceRanges(sequences) ==
    IF sequences = <<>> THEN <<>>
    ELSE reduceSequence(sequenceRanges(SubSeq(sequences, 1, Len(sequences) - 1)),
                        sequences[Len(sequences)])

\* r => r.start == r.end ? r.start : `${r.start}-${r.end}`, as join prints it
rangeText(r) ==
    IF r.start = r.end
    THEN (IF r.isNumber THEN NumberToString(r.start) ELSE r.start)
    ELSE NumberToString(r.start) \o <<"-">> \o NumberToString(r.end)

\* .join(', ')
RECURSIVE joinRanges(_)
joinRanges(ranges) ==
    IF ranges = <<>> THEN <<>>
    ELSE IF Len(ranges) = 1 THEN rangeText(ranges[1])
    ELSE joinRanges(SubSeq(ranges, 1, Len(ranges) - 1))
             \o <<",", " ">> \o rangeText(ranges[Len(ranges)])

\* books.filter(b => b.filterSeriesSequence).map(b => b.filterSeriesSequence)
RECURSIVE filterSeriesSequences(_)
filterSeriesSequences(books) ==
    IF books = <<>> THEN <<>>
    ELSE (IF Truthy(books[1].filterSeriesSequence)
          THEN <<books[1].filterSeriesSequence>> ELSE <<>>)
             \o filterSeriesSequences(Tail(books))

\* the tokens the reducer walks, in the order it walks them
sortedSequences(books) == naturalSortAsc(filterSeriesSequences(books))

seriesSequenceList(books) == joinRanges(sequenceRanges(sortedSequences(books)))

\* the mapping of one collapsed series in Step 4, applied to its books
mapSeriesSequenceList ==
    /\ handler = "seriesSequenceList"
    /\ pc = "request"
    /\ pc' = "responded"
    /\ local' = [sequences |-> sortedSequences(req.books),
                 ranges |-> sequenceRanges(sortedSequences(req.books))]
    /\ res' = [status |-> 200, body |-> seriesSequenceList(req.books)]
    /\ UNCHANGED <<handler, req, Database, inheritedNumBooks>>

\* sequence tokens of the books of a collapsed series: integers, fractions
\* whose double value is exact, a leading zero, a trailing point, tokens that
\* are no numbers and the empty sequence of a book without a position
SequenceTokens ==
    << <<"1">>, <<"2">>, <<"3">>, <<"5">>, <<"7">>, <<"8">>,
       <<"0", ".", "5">>, <<"1", ".", "5">>, <<".", "5">>, <<"1", ".">>,
       <<"3", "a">>, <<"2", "a">>, <<"0", "1">>, <<>> >>

InitSeq ==
    /\ handler = "seriesSequenceList"
    /\ pc = "request"
    /\ \E S \in SUBSET (1..Len(SequenceTokens)), ascending \in BOOLEAN :
         req = [books |-> [i \in 1..Cardinality(S) |->
                              [filterSeriesSequence |-> Pick(SequenceTokens, S, ascending)[i]]]]
    /\ Database = [series |-> {}, authors |-> {}]
    /\ local = [sequences |-> <<>>, ranges |-> <<>>]
    /\ res = NoResponse
    /\ inheritedNumBooks = NoInheritedNumBooks

NextSeq == mapSeriesSequenceList

SpecSeq == InitSeq /\ [][NextSeq]_vars

(***************************************************************************)
(* getLibraryItems (api/libraries/:id/items), lines 219-415.               *)
(***************************************************************************)
\* req.query.limit && !isNaN(req.query.limit) ? Number(req.query.limit) : 0
numberOrZero(v) == IF Truthy(v) /\ ~isNaN(v) THEN Number(v) ELSE 0

\* the payload of lines 224-236
newPayload(r) ==
    [results |-> <<>>,
     total |-> Len(r.libraryItems),
     limit |-> numberOrZero(r.query.limit),
     page |-> numberOrZero(r.query.page),
     sortBy |-> r.query.sort,
     sortDesc |-> r.query.desc = str_one,
     filterBy |-> r.query.filter,
     mediaType |-> r.library.mediaType,
     collapseseries |-> r.query.collapseseries = str_one]

\* lines 247-248
filterSeriesOf(payload) ==
    LET decoded == IF payload.mediaType = str_book /\ startsWith(payload.filterBy, str_seriesDot)
                   THEN decode(removeFirst(payload.filterBy, str_seriesDot))
                   ELSE null
    IN  IF decoded = str_noSeries THEN null ELSE decoded

\* s.trim() of a string whose only white space is the space character
RECURSIVE trim(_)
trim(t) ==
    IF t # <<>> /\ t[1] = " " THEN trim(Tail(t))
    ELSE IF t # <<>> /\ t[Len(t)] = " " THEN trim(SubSeq(t, 1, Len(t) - 1))
    ELSE t

\* (req.query.include || '').split(',').map(v => v.trim().toLowerCase()).filter(v => !!v)
includeOf(query) ==
    LET parts == split(IF Truthy(query.include) THEN query.include ELSE <<>>, ",")
        lowered == [i \in 1..Len(parts) |->
                       trim([j \in 1..Len(parts[i]) |-> Lower(parts[i][j])])]
    IN  SelectSeq(lowered, LAMBDA v : v # <<>>)

\* include.includes(token)
hasToken(include, token) == \E i \in 1..Len(include) : include[i] = token

Step1_totalOfLibrary(r) ==
    LET payload == newPayload(r)
    IN  IF Truthy(payload.filterBy)
        THEN {[libraryItems |-> filtered,
               payload |-> payload,
               filterSeries |-> filterSeriesOf(payload),
               include |-> includeOf(r.query)] :
                 filtered \in getFilteredLibraryItems(r.libraryItems, payload.filterBy)}
        ELSE {[libraryItems |-> r.libraryItems,
               payload |-> payload,
               filterSeries |-> null,
               include |-> includeOf(r.query)]}

\* the locals after Step 1, lines 219-249, one for each list the filter
\* can give
Step1(r) ==
    LET payload == newPayload(r)
    IN  IF Truthy(payload.filterBy)
        THEN {[libraryItems |-> filtered,
               payload |-> [payload EXCEPT !.total = Len(filtered)],
               filterSeries |-> filterSeriesOf(payload),
               include |-> includeOf(r.query)] :
                 filtered \in getFilteredLibraryItems(r.libraryItems, payload.filterBy)}
        ELSE {[libraryItems |-> r.libraryItems,
               payload |-> payload,
               filterSeries |-> null,
               include |-> includeOf(r.query)]}

\* Step 1 - filter the retrieved library items, lines 219-249
getLibraryItems_Step1 ==
    /\ handler = "getLibraryItems"
    /\ pc = "start"
    /\ pc' = "step2"
    /\ local' \in Step1(req)
    /\ UNCHANGED <<handler, req, Database, inheritedNumBooks, res>>

keepsCollapsed_always(collapsedItems) == TRUE

\* !(collapsedItems.length == 1 && collapsedItems[0].collapsedSeries)
keepsCollapsed(collapsedItems) ==
    ~(Len(collapsedItems) = 1 /\ isTruthy(prop(collapsedItems[1], str_collapsedSeries)))

\* the locals after Step 2, lines 251-271, one for each list the collapse
\* can give
Step2(l) ==
    IF l.payload.collapseseries
    THEN {IF keepsCollapsed(collapsedItems)
          THEN [l EXCEPT !.libraryItems = collapsedItems,
                         !.payload.total = Len(collapsedItems)]
          ELSE l :
            collapsedItems \in collapseBookSeries(l.libraryItems, l.filterSeries)}
    ELSE {l}

\* Step 2 - collapse library items by series, lines 251-271
getLibraryItems_Step2 ==
    /\ handler = "getLibraryItems"
    /\ pc = "step2"
    /\ pc' = "step3"
    /\ local' \in Step2(local)
    /\ UNCHANGED <<handler, req, Database, inheritedNumBooks, res>>

\* const sortByTitle = sortKey === 'media.metadata.title'
sortByTitle(payload) == payload.sortBy = str_mediaMetadataTitle

\* the sort key of lines 292-299
sortKeyOf(payload, settings) ==
    IF sortByTitle(payload) /\ settings.sortingIgnorePrefix
    THEN payload.sortBy \o str_IgnorePrefix
    ELSE payload.sortBy

\* const sortBySequence = filterSeries && (sortKey === 'sequence')
sortBySequence(payload, filterSeries, settings) ==
    filterSeries # null /\ sortKeyOf(payload, settings) = str_sequence

\* what the extractors of the sort read besides the item
sortContext(payload, filterSeries, settings) ==
    [sortKey |-> sortKeyOf(payload, settings),
     sortByTitle |-> sortByTitle(payload),
     sortBySequence |-> sortBySequence(payload, filterSeries, settings),
     filterSeries |-> filterSeries,
     mediaIsBook |-> payload.mediaType = str_book,
     sortingIgnorePrefix |-> settings.sortingIgnorePrefix]

sortArrayOf_noCollapsedName(payload, filterSeries, settings) ==
    (IF filterSeries # null /\ ~Truthy(payload.sortBy)
     THEN <<[direction |-> "asc", fn |-> "seriesSequence"],
            [direction |-> "asc", fn |-> "nameOrTitle"]>>
     ELSE <<>>)
    \o (IF Truthy(payload.sortBy)
        THEN <<[direction |-> IF payload.sortDesc THEN "desc" ELSE "asc",
                fn |-> "sortKey"]>>
             \o (IF payload.mediaType = str_book /\ includes(payload.sortBy, str_author)
                 THEN <<[direction |-> "asc", fn |-> "seriesSortTitle"]>>
                 ELSE <<>>)
        ELSE <<>>)

sortArrayOf_sequenceOnly(payload, filterSeries, settings) ==
    (IF filterSeries # null /\ ~Truthy(payload.sortBy)
     THEN <<[direction |-> "asc", fn |-> "seriesSequence"]>>
     ELSE <<>>)
    \o (IF Truthy(payload.sortBy)
        THEN (IF payload.collapseseries
                 /\ ~(sortByTitle(payload) \/ sortBySequence(payload, filterSeries, settings))
              THEN <<[direction |-> "asc", fn |-> "collapsedName"]>>
              ELSE <<>>)
             \o <<[direction |-> IF payload.sortDesc THEN "desc" ELSE "asc",
                   fn |-> "sortKey"]>>
             \o (IF payload.mediaType = str_book /\ includes(payload.sortBy, str_author)
                 THEN <<[direction |-> "asc", fn |-> "seriesSortTitle"]>>
                 ELSE <<>>)
        ELSE <<>>)

sortArrayOf_noAuthorTieBreak(payload, filterSeries, settings) ==
    (IF filterSeries # null /\ ~Truthy(payload.sortBy)
     THEN <<[direction |-> "asc", fn |-> "seriesSequence"],
            [direction |-> "asc", fn |-> "nameOrTitle"]>>
     ELSE <<>>)
    \o (IF Truthy(payload.sortBy)
        THEN (IF payload.collapseseries
                 /\ ~(sortByTitle(payload) \/ sortBySequence(payload, filterSeries, settings))
              THEN <<[direction |-> "asc", fn |-> "collapsedName"]>>
              ELSE <<>>)
             \o <<[direction |-> IF payload.sortDesc THEN "desc" ELSE "asc",
                   fn |-> "sortKey"]>>
        ELSE <<>>)

\* the sort array of lines 274-346: the direction and the extractor of each
\* entry, in the order they are pushed
sortArrayOf(payload, filterSeries, settings) ==
    (IF filterSeries # null /\ ~Truthy(payload.sortBy)
     THEN <<[direction |-> "asc", fn |-> "seriesSequence"],
            [direction |-> "asc", fn |-> "nameOrTitle"]>>
     ELSE <<>>)
    \o (IF Truthy(payload.sortBy)
        THEN (IF payload.collapseseries
                 /\ ~(sortByTitle(payload) \/ sortBySequence(payload, filterSeries, settings))
              THEN <<[direction |-> "asc", fn |-> "collapsedName"]>>
              ELSE <<>>)
             \o <<[direction |-> IF payload.sortDesc THEN "desc" ELSE "asc",
                   fn |-> "sortKey"]>>
             \o (IF payload.mediaType = str_book /\ includes(payload.sortBy, str_author)
                 THEN <<[direction |-> "asc", fn |-> "seriesSortTitle"]>>
                 ELSE <<>>)
        ELSE <<>>)

\* the extractors: (li) => ... of lines 278, 281-287, 306-314, 321-332, 338-343
extract(fn, ctx, li) ==
    LET collapsed == prop(li, str_collapsedSeries)
        metadata == reducePath(<<str_media, str_metadata>>, li)
    IN  CASE fn = "seriesSequence" ->
                 prop(getSeries(li, ctx.filterSeries), str_sequence)
          [] fn = "nameOrTitle" ->
                 IF ctx.sortingIgnorePrefix
                 THEN or(optional(collapsed, str_nameIgnorePrefix),
                         prop(metadata, str_titleIgnorePrefix))
                 ELSE or(optional(collapsed, str_name), prop(metadata, str_title))
          [] fn = "collapsedName" ->
                 IF isTruthy(collapsed)
                 THEN (IF ctx.sortingIgnorePrefix
                       THEN prop(collapsed, str_nameIgnorePrefix)
                       ELSE prop(collapsed, str_name))
                 ELSE Str(<<>>)
          [] fn = "sortKey" ->
                 IF ctx.mediaIsBook /\ ctx.sortBySequence
                 THEN prop(getSeries(li, ctx.filterSeries), str_sequence)
                 ELSE IF ctx.mediaIsBook /\ ctx.sortByTitle /\ isTruthy(collapsed)
                 THEN (IF ctx.sortingIgnorePrefix
                       THEN prop(collapsed, str_nameIgnorePrefix)
                       ELSE prop(collapsed, str_name))
                 ELSE reducePath(split(ctx.sortKey, "."), li)
          [] fn = "seriesSortTitle" ->
                 IF seriesOf(li) # <<>>
                 THEN getSeriesSortTitle(seriesOf(li)[1])
                 ELSE Null

\* the text the comparer sees of a key: Intl.Collator's compare converts its
\* operands to strings
keyText(a) ==
    CASE a.t = "string" -> a.v
      [] a.t = "number" -> NatToString(a.v)
      [] a.t = "undefined" -> <<"u", "n", "d", "e", "f", "i", "n", "e", "d">>
      [] a.t = "null" -> <<"n", "u", "l", "l">>
      [] OTHER -> <<"[", "o", "b", "j", "e", "c", "t", " ", "O", "b", "j", "e", "c", "t", "]">>

compareBy_firstEntryOnly(sortArray, k, ctx, a, b) ==
    IF k > Len(sortArray) THEN 0
    ELSE LET ka == extract(sortArray[1].fn, ctx, a)
             kb == extract(sortArray[1].fn, ctx, b)
         IN  IF ka.t = "TypeError" \/ kb.t = "TypeError" THEN 2
             ELSE LET c == naturalCompare(keyText(ka), keyText(kb))
                  IN  IF sortArray[1].direction = "desc" THEN 0 - c ELSE c

\* the composite order of naturalSort(...).by(sortArray) on two items: the
\* first entry whose keys differ decides, in its direction; 0 when none does.
\* Outcome 2 stands for an extractor that threw.
RECURSIVE compareBy(_, _, _, _, _)
compareBy(sortArray, k, ctx, a, b) ==
    IF k > Len(sortArray) THEN 0
    ELSE LET ka == extract(sortArray[k].fn, ctx, a)
             kb == extract(sortArray[k].fn, ctx, b)
         IN  IF ka.t = "TypeError" \/ kb.t = "TypeError" THEN 2
             ELSE LET c == naturalCompare(keyText(ka), keyText(kb))
                      d == IF sortArray[k].direction = "desc" THEN 0 - c ELSE c
                  IN  IF d # 0 THEN d ELSE compareBy(sortArray, k + 1, ctx, a, b)

\* naturalSort(libraryItems).by(sortArray) throws when a comparison does
sortThrows(libraryItems, sortArray, ctx) ==
    \E i, j \in 1..Len(libraryItems) :
        i # j /\ compareBy(sortArray, 1, ctx, libraryItems[i], libraryItems[j]) = 2

naturalSortBy_unstable(libraryItems, sortArray, ctx) ==
    LET before == [i \in 1..Len(libraryItems) |-> [j \in 1..Len(libraryItems) |->
                      compareBy(sortArray, 1, ctx, libraryItems[i], libraryItems[j]) <= 0]]
        order == StableSort(Len(libraryItems), before)
    IN  [k \in 1..Len(libraryItems) |-> libraryItems[order[k]]]

\* naturalSort(libraryItems).by(sortArray): a stable sort under the composite
\* order
naturalSortBy(libraryItems, sortArray, ctx) ==
    LET before == [i \in 1..Len(libraryItems) |-> [j \in 1..Len(libraryItems) |->
                      compareBy(sortArray, 1, ctx, libraryItems[i], libraryItems[j]) < 0]]
        order == StableSort(Len(libraryItems), before)
    IN  [k \in 1..Len(libraryItems) |-> libraryItems[order[k]]]

\* if (sortArray.length) naturalSort(libraryItems).by(sortArray) throws
Step3Throws(l, settings) ==
    LET sortArray == sortArrayOf(l.payload, l.filterSeries, settings)
    IN  /\ sortArray # <<>>
        /\ sortThrows(l.libraryItems, sortArray, sortContext(l.payload, l.filterSeries, settings))

\* the locals after Step 3, lines 273-350
Step3(l, settings) ==
    LET sortArray == sortArrayOf(l.payload, l.filterSeries, settings)
    IN  [l EXCEPT !.libraryItems =
            IF sortArray # <<>>
            THEN naturalSortBy(@, sortArray, sortContext(l.payload, l.filterSeries, settings))
            ELSE @]

\* Step 3 - sort the retrieved library items, lines 273-350; an extractor
\* that throws rejects the promise of the async handler, and no response is
\* sent
getLibraryItems_Step3 ==
    /\ handler = "getLibraryItems"
    /\ pc = "step3"
    /\ IF Step3Throws(local, Database.serverSettings)
       THEN pc' = "rejected" /\ local' = local
       ELSE pc' = "step3_5" /\ local' = Step3(local, Database.serverSettings)
    /\ UNCHANGED <<handler, req, Database, inheritedNumBooks, res>>

\* Step 3.5: limit items, lines 352-356
limitItems(libraryItems, payload) ==
    IF payload.limit # 0
    THEN slice(libraryItems, payload.page * payload.limit,
               payload.page * payload.limit + payload.limit)
    ELSE libraryItems

\* the locals after Step 3.5, lines 352-356
Step3_5(l) == [l EXCEPT !.libraryItems = limitItems(@, l.payload)]

getLibraryItems_Step3_5 ==
    /\ handler = "getLibraryItems"
    /\ pc = "step3_5"
    /\ pc' = "step4"
    /\ local' = Step3_5(local)
    /\ UNCHANGED <<handler, req, Database, inheritedNumBooks, res>>

\* li.toJSON() / li.toJSONMinified(): a copy of the item, of which the
\* model keeps the id and media.metadata.series
toJSON(li) ==
    [id |-> li.f[str_id].v,
     series |-> reducePath(<<str_media, str_metadata, str_series>>, li),
     collapsedSeries |-> [id |-> undefined],
     rssFeed |-> undefined]

\* json.collapsedSeries of a collapsed row, lines 363-392
collapsedSeriesOf(li, filterSeries) ==
    LET collapsed == prop(li, str_collapsedSeries)
    IN  [id |-> collapsed.f[str_id].v,
         name |-> collapsed.f[str_name].v,
         nameIgnorePrefix |-> collapsed.f[str_nameIgnorePrefix].v,
         libraryItemIds |-> [i \in 1..Len(collapsed.f[str_books].v) |->
                                collapsed.f[str_books].v[i].id],
         numBooks |-> Len(collapsed.f[str_books].v),
         seriesSequenceList |->
             IF filterSeries # null
             THEN seriesSequenceList(collapsed.f[str_books].v)
             ELSE undefined]

\* this.rssFeedManager.findFeedForEntityId(id), then feedData.toJSONMinified()
\* or null
rssFeedOf(db, id) == IF id \in db.feeds THEN [entityId |-> id] ELSE null

\* the callback of a row awaits the feed lookup, lines 393-396
awaitsFeed(li, l) ==
    ~isTruthy(prop(li, str_collapsedSeries)) /\ hasToken(l.include, str_rssfeed)

\* the callback up to its first await, or to its end when it has none
rowBeforeAwait(li, l) ==
    LET json == toJSON(li)
    IN  IF isTruthy(prop(li, str_collapsedSeries))
        THEN [json EXCEPT !.collapsedSeries = collapsedSeriesOf(li, l.filterSeries)]
        ELSE IF awaitsFeed(li, l) THEN json
        ELSE IF l.filterSeries # null
        THEN [json EXCEPT !.series = getSeries(li, l.filterSeries)]
        ELSE json

\* the rest of the callback once the feed lookup has answered, lines 397-408
\* (numEpisodesIncomplete, of podcasts, is left out)
rowAfterAwait(json, li, l, db) ==
    LET fed == [json EXCEPT !.rssFeed = rssFeedOf(db, json.id)]
    IN  IF l.filterSeries # null
        THEN [fed EXCEPT !.series = getSeries(li, l.filterSeries)]
        ELSE fed

\* the row sent for one item, lines 359-412
toJSONRow(li, l, db) ==
    IF awaitsFeed(li, l)
    THEN rowAfterAwait(rowBeforeAwait(li, l), li, l, db)
    ELSE rowBeforeAwait(li, l)

\* the locals after Step 4, lines 358-414
Step4(l, db) ==
    [l EXCEPT !.payload.results =
        [i \in 1..Len(l.libraryItems) |-> toJSONRow(l.libraryItems[i], l, db)]]

\* Step 4 - transform the items and send the payload, lines 358-414
getLibraryItems_Step4 ==
    /\ handler = "getLibraryItems"
    /\ pc = "step4"
    /\ pc' = "responded"
    /\ local' = Step4(local, Database)
    /\ res' = [status |-> 200, body |-> local'.payload]
    /\ UNCHANGED <<handler, req, Database, inheritedNumBooks>>

(***************************************************************************)
(* Requests of getLibraryItems and getAllSeriesForLibrary.                 *)
(***************************************************************************)
\* number of library items of a request
MaxLibraryItems == 3

BookCatalogue ==
    {Book(1, <<"b">>, <<"x">>, <<>>, 1),
     Book(2, <<"B">>, <<"x">>,
          <<seriesMembership(SeriesS1, <<"T", "h", "e", " ", "d">>, Str(<<"1">>))>>, 2),
     Book(3, <<"T", "h", "e", " ", "a">>, <<"t">>,
          <<seriesMembership(SeriesS1, <<"T", "h", "e", " ", "d">>, Str(<<"2">>))>>, 1),
     Book(4, <<"a">>, <<"X">>,
          <<seriesMembership(SeriesS2, <<"c">>, Str(<<"1">>))>>, 3),
     Book(7, <<"A">>, <<"t">>,
          <<seriesMembership(SeriesS1, <<"T", "h", "e", " ", "d">>, Str(<<"1">>)),
            seriesMembership(SeriesS2, <<"c">>, Str(<<"2">>))>>, 2)}

PodcastCatalogue ==
    {Podcast(5, <<"b">>, <<"x">>, 1),
     Podcast(6, <<"A">>, <<"x">>, 2)}

\* the lists of at most n elements of S
RECURSIVE ListsOf(_, _)
ListsOf(S, n) ==
    IF n = 0 THEN {<<>>}
    ELSE ListsOf(S, n - 1)
         \cup {Append(l, x) : l \in {m \in ListsOf(S, n - 1) : Len(m) = n - 1},
                              x \in S}

Distinct(l) == \A i, j \in 1..Len(l) : i # j => l[i] # l[j]

Libraries ==
    {[mediaType |-> str_book, libraryItems |-> l] :
        l \in {m \in ListsOf(BookCatalogue, MaxLibraryItems) : Distinct(m)}}
    \cup {[mediaType |-> str_podcast, libraryItems |-> l] :
        l \in {m \in ListsOf(PodcastCatalogue, MaxLibraryItems) : Distinct(m)}}

(***************************************************************************)
(* getAllSeriesForLibrary, lines 440-498.  libraryHelpers.getSeriesFromBooks *)
(* lives outside the controller: its result is some list of the series of  *)
(* the library.                                                            *)
(***************************************************************************)
str_numBooks == <<"n", "u", "m", "B", "o", "o", "k", "s">>
str_totalDuration == <<"t", "o", "t", "a", "l", "D", "u", "r", "a", "t", "i", "o", "n">>
str_lastBookUpdated == <<"l", "a", "s", "t", "B", "o", "o", "k", "U", "p", "d", "a", "t", "e", "d">>
str_lastBookAdded == <<"l", "a", "s", "t", "B", "o", "o", "k", "A", "d", "d", "e", "d">>

\* Math.max(...list, 0)
RECURSIVE MathMax0(_)
MathMax0(list) ==
    IF list = <<>> THEN 0
    ELSE LET m == MathMax0(Tail(list)) IN IF list[1] > m THEN list[1] ELSE m

\* the payload of lines 445-455
newSeriesPayload(r) ==
    [results |-> <<>>,
     total |-> 0,
     limit |-> numberOrZero(r.query.limit),
     page |-> numberOrZero(r.query.page),
     sortBy |-> r.query.sort,
     sortDesc |-> r.query.desc = str_one,
     filterBy |-> r.query.filter]

\* the extractor of lines 462-476
seriesSortValue(se, payload, settings) ==
    CASE payload.sortBy = str_numBooks -> Num(Len(se.books))
      [] payload.sortBy = str_totalDuration -> Num(se.totalDuration)
      [] payload.sortBy = str_addedAt -> Num(se.addedAt)
      [] payload.sortBy = str_lastBookUpdated ->
             Num(MathMax0([i \in 1..Len(se.books) |-> se.books[i].updatedAt]))
      [] payload.sortBy = str_lastBookAdded ->
             Num(MathMax0([i \in 1..Len(se.books) |-> se.books[i].addedAt]))
      [] OTHER -> Str(IF settings.sortingIgnorePrefix THEN se.nameIgnorePrefixSort ELSE se.name)

\* naturalSort(series).by([{ [direction]: ... }]), lines 459-478
sortSeries(series, payload, settings) ==
    LET cmp(a, b) == naturalCompare(keyText(seriesSortValue(a, payload, settings)),
                                    keyText(seriesSortValue(b, payload, settings)))
        before == [i \in 1..Len(series) |-> [j \in 1..Len(series) |->
                      IF payload.sortDesc THEN cmp(series[i], series[j]) > 0
                      ELSE cmp(series[i], series[j]) < 0]]
        order == StableSort(Len(series), before)
    IN  [k \in 1..Len(series) |-> series[order[k]]]

SeriesCatalogue ==
    {[id |-> SeriesS1, name |-> <<"T", "h", "e", " ", "d">>, nameIgnorePrefixSort |-> <<"d">>,
      books |-> <<[addedAt |-> 2, updatedAt |-> 5], [addedAt |-> 1, updatedAt |-> 4]>>,
      totalDuration |-> 10, addedAt |-> 2],
     [id |-> SeriesS2, name |-> <<"c">>, nameIgnorePrefixSort |-> <<"c">>,
      books |-> <<[addedAt |-> 3, updatedAt |-> 3]>>,
      totalDuration |-> 2, addedAt |-> 3],
     [id |-> <<"s", "3">>, name |-> <<"C", " ", "1", "0">>, nameIgnorePrefixSort |-> <<"C", " ", "1", "0">>,
      books |-> <<>>,
      totalDuration |-> 0, addedAt |-> 1]}

\* the series (with the number of their books in the library) that the
\* library's books belong to, in some order
getSeriesFromBooks(libraryItems, filterBy) ==
    {l \in ListsOf(SeriesCatalogue, MaxLibraryItems) : Distinct(l)}

\* lines 440-498; the rssFeed overlay of the rows is left out
getAllSeriesForLibrary ==
    /\ handler = "getAllSeriesForLibrary"
    /\ pc = "start"
    /\ pc' = "responded"
    /\ \E found \in getSeriesFromBooks(req.libraryItems, req.query.filter) :
         LET payload == newSeriesPayload(req)
             series == sortSeries(found, payload, Database.serverSettings)
             sliced == limitItems(series, payload)
             sent == [payload EXCEPT !.total = Len(series), !.results = sliced]
         IN  /\ local' = [libraryItems |-> <<>>, series |-> series, payload |-> sent]
             /\ res' = [status |-> 200, body |-> sent]
    /\ UNCHANGED <<handler, req, Database, inheritedNumBooks>>

str_xDotY == <<"x", ".", "y">>
str_issues == <<"i", "s", "s", "u", "e", "s">>
SortStrings ==
    {undefined, str_mediaMetadataTitle, str_mediaMetadataAuthorName, str_addedAt,
     str_sequence, str_xDotY}
SeriesSortStrings ==
    {undefined, str_numBooks, str_totalDuration, str_addedAt, str_lastBookUpdated,
     str_lastBookAdded}
Flags == {undefined, str_one}
PageStrings == {undefined, <<"0">>, <<"1">>, <<"2">>, <<"-", "1">>}
LimitNumbers == {undefined, <<"x">>, <<"0">>, <<"1">>, <<"2">>, <<"-", "1">>}

InitItems(Sorts, Descs, Filters, Collapses, Limits, Pages, Settings) ==
    /\ handler = "getLibraryItems"
    /\ pc = "start"
    /\ \E lib \in Libraries, sort \in Sorts, desc \in Descs, filter \in Filters,
          collapseseries \in Collapses, limit \in Limits, page \in Pages :
         req = [query |-> [sort |-> sort, desc |-> desc, filter |-> filter,
                           collapseseries |-> collapseseries,
                           limit |-> limit, page |-> page, include |-> undefined],
                library |-> [mediaType |-> lib.mediaType],
                libraryItems |-> lib.libraryItems]
    /\ \E b \in Settings : Database = [serverSettings |-> [sortingIgnorePrefix |-> b]]
    /\ local = [libraryItems |-> <<>>]
    /\ res = NoResponse
    /\ inheritedNumBooks = NoInheritedNumBooks

InitSeries ==
    /\ handler = "getAllSeriesForLibrary"
    /\ pc = "start"
    /\ \E sort \in SeriesSortStrings, desc \in Flags, limit \in LimitNumbers,
          page \in PageStrings :
         req = [query |-> [sort |-> sort, desc |-> desc, filter |-> undefined,
                           collapseseries |-> undefined,
                           limit |-> limit, page |-> page],
                library |-> [mediaType |-> str_book],
                libraryItems |-> <<>>]
    /\ \E b \in BOOLEAN : Database = [serverSettings |-> [sortingIgnorePrefix |-> b]]
    /\ local = [libraryItems |-> <<>>]
    /\ res = NoResponse
    /\ inheritedNumBooks = NoInheritedNumBooks

NextItems ==
    \/ getLibraryItems_Step1
    \/ getLibraryItems_Step2
    \/ getLibraryItems_Step3
    \/ getLibraryItems_Step3_5
    \/ getLibraryItems_Step4

\* requests that exercise the sort chain
InitSort ==
    InitItems(SortStrings, Flags, {undefined, str_seriesDot \o EncodedS1}, Flags,
              {undefined}, {undefined}, BOOLEAN)

SpecSort == InitSort /\ [][NextItems]_vars

\* requests that exercise pagination, of both handlers
InitPage ==
    \/ InitItems({undefined, str_mediaMetadataTitle}, {undefined}, {undefined, str_issues},
                 {undefined}, LimitNumbers, PageStrings, {FALSE})
    \/ InitSeries

NextPage ==
    \/ getLibraryItems_Step1
    \/ getLibraryItems_Step2
    \/ getLibraryItems_Step3
    \/ getLibraryItems_Step3_5
    \/ getLibraryItems_Step4
    \/ getAllSeriesForLibrary

SpecPage == InitPage /\ [][NextPage]_vars

\* requests that filter, collapse, sort and paginate
InitTotal ==
    InitItems({undefined, str_mediaMetadataTitle}, {undefined},
              {undefined, str_issues, str_seriesDot \o EncodedS1}, Flags,
              {undefined, <<"1">>, <<"2">>}, {undefined, <<"1">>}, {FALSE})

SpecTotal == InitTotal /\ [][NextItems]_vars

(***************************************************************************)
(* Invocations in flight together.  The event loop runs one invocation at  *)
(* a time and switches at an await: line 243, line 359 and, in the         *)
(* callback of each row, line 395.  search has no await.  Here handler,    *)
(* pc, req, local and res hold one value per invocation; Database and      *)
(* inheritedNumBooks are the ones every invocation sees.  The steps of     *)
(* getLibraryItems are interleaved one by one, which allows every switch   *)
(* the event loop can make.                                                *)
(***************************************************************************)
NumInvocations == 2

Invocations == 1..NumInvocations

\* the locals of Step 4 while the rows are awaited: awaiting holds the rows
\* whose feed lookup has not answered
awaitingRows(l, rows) ==
    [libraryItems |-> l.libraryItems,
     payload |-> [l.payload EXCEPT !.results = rows],
     filterSeries |-> l.filterSeries,
     include |-> l.include,
     awaiting |-> {i \in 1..Len(l.libraryItems) : awaitsFeed(l.libraryItems[i], l)}]

invoked_Step1(k) ==
    /\ handler[k] = "getLibraryItems"
    /\ pc[k] = "start"
    /\ pc' = [pc EXCEPT ![k] = "step2"]
    /\ \E l \in Step1(req[k]) : local' = [local EXCEPT ![k] = l]
    /\ UNCHANGED <<handler, req, Database, inheritedNumBooks, res>>

invoked_Step2(k) ==
    /\ handler[k] = "getLibraryItems"
    /\ pc[k] = "step2"
    /\ pc' = [pc EXCEPT ![k] = "step3"]
    /\ \E l \in Step2(local[k]) : local' = [local EXCEPT ![k] = l]
    /\ UNCHANGED <<handler, req, Database, inheritedNumBooks, res>>

invoked_Step3(k) ==
    /\ handler[k] = "getLibraryItems"
    /\ pc[k] = "step3"
    /\ IF Step3Throws(local[k], Database.serverSettings)
       THEN /\ pc' = [pc EXCEPT ![k] = "rejected"]
            /\ local' = local
       ELSE /\ pc' = [pc EXCEPT ![k] = "step3_5"]
            /\ local' = [local EXCEPT ![k] = Step3(@, Database.serverSettings)]
    /\ UNCHANGED <<handler, req, Database, inheritedNumBooks, res>>

invoked_Step3_5(k) ==
    /\ handler[k] = "getLibraryItems"
    /\ pc[k] = "step3_5"
    /\ pc' = [pc EXCEPT ![k] = "step4"]
    /\ local' = [local EXCEPT ![k] = Step3_5(@)]
    /\ UNCHANGED <<handler, req, Database, inheritedNumBooks, res>>

\* libraryItems.map runs every callback up to its first await, line 359
invoked_Step4(k) ==
    /\ handler[k] = "getLibraryItems"
    /\ pc[k] = "step4"
    /\ pc' = [pc EXCEPT ![k] = "awaitingRows"]
    /\ local' = [local EXCEPT ![k] =
           awaitingRows(@, [i \in 1..Len(@.libraryItems) |->
                               rowBeforeAwait(@.libraryItems[i], @)])]
    /\ UNCHANGED <<handler, req, Database, inheritedNumBooks, res>>

\* the feed lookup of row i answers and its callback runs to the end,
\* lines 396-411; Promise.all keeps the row at position i
feedLookupAnswers(k, i) ==
    /\ handler[k] = "getLibraryItems"
    /\ pc[k] = "awaitingRows"
    /\ i \in local[k].awaiting
    /\ local' = [local EXCEPT
           ![k].payload.results[i] =
               rowAfterAwait(@, local[k].libraryItems[i], local[k], Database),
           ![k].awaiting = @ \ {i}]
    /\ UNCHANGED <<handler, pc, req, Database, inheritedNumBooks, res>>

\* every callback has returned: res.json(payload), line 414
invoked_send(k) ==
    /\ handler[k] = "getLibraryItems"
    /\ pc[k] = "awaitingRows"
    /\ local[k].awaiting = {}
    /\ pc' = [pc EXCEPT ![k] = "responded"]
    /\ res' = [res EXCEPT ![k] = [status |-> 200, body |-> local[k].payload]]
    /\ UNCHANGED <<handler, req, Database, inheritedNumBooks, local>>

\* search runs from its request to its response without an await
invoked_search(k) ==
    /\ handler[k] = "search"
    /\ pc[k] = "start"
    /\ pc' = [pc EXCEPT ![k] = "responded"]
    /\ IF noQueryString(req[k].query)
       THEN /\ res' = [res EXCEPT ![k] = [status |-> 400, body |-> "No query string"]]
            /\ local' = local
            /\ inheritedNumBooks' = inheritedNumBooks
       ELSE /\ local' = [local EXCEPT ![k] = scan(Database, NewScan, req[k].libraryItems, 1)]
            /\ res' = [res EXCEPT ![k] = respond(req[k].query, local'[k])]
            /\ inheritedNumBooks' = incremented(inheritedNumBooks, local'[k].inherited)
    /\ UNCHANGED <<handler, req, Database>>

\* requests of getLibraryItems sent together with others
ItemRequests ==
    {[query |-> [sort |-> undefined, desc |-> undefined, filter |-> filter,
                 collapseseries |-> collapseseries, limit |-> undefined,
                 page |-> undefined, include |-> include],
      library |-> [mediaType |-> str_book],
      libraryItems |-> l] :
        filter \in {undefined, str_seriesDot \o EncodedS1},
        collapseseries \in Flags,
        include \in {undefined, str_rssfeed},
        l \in {m \in ListsOf(BookCatalogue, 2) :
                 Len(m) = 2 /\ m[1].f[str_id].v + 1 = m[2].f[str_id].v}}

\* requests of search sent together with others
SearchRequests ==
    {[query |-> [q |-> q, limit |-> undefined],
      libraryItems |-> LibraryItemsOf(<<[matchKey |-> <<"t">>, matchText |-> <<"T">>,
                                         series |-> <<>>, authors |-> authors,
                                         tags |-> <<>>, narrators |-> <<>>]>>)] :
        q \in {undefined, <<"x">>},
        authors \in {<<>>, <<<<"a">>, <<"a">>>>, <<constructor>>, <<<<"a">>, toString>>}}

InitConcurrent ==
    /\ handler \in [Invocations -> {"getLibraryItems", "search"}]
    /\ pc = [k \in Invocations |-> "start"]
    /\ req \in [Invocations -> ItemRequests \cup SearchRequests]
    /\ \A k \in Invocations :
         req[k] \in IF handler[k] = "search" THEN SearchRequests ELSE ItemRequests
    /\ Database = [serverSettings |-> [sortingIgnorePrefix |-> TRUE],
                   series |-> SeriesTable, authors |-> AuthorTable, feeds |-> {2, 4}]
    /\ local = [k \in Invocations |-> [libraryItems |-> <<>>]]
    /\ res = [k \in Invocations |-> NoResponse]
    /\ inheritedNumBooks = NoInheritedNumBooks

NextConcurrent ==
    \E k \in Invocations :
        \/ invoked_Step1(k)
        \/ invoked_Step2(k)
        \/ invoked_Step3(k)
        \/ invoked_Step3_5(k)
        \/ invoked_Step4(k)
        \/ \E i \in 1..2 : feedLookupAnswers(k, i)
        \/ invoked_send(k)
        \/ invoked_search(k)

SpecConcurrent == InitConcurrent /\ [][NextConcurrent]_vars

(***************************************************************************)
(* Properties of search.                                                   *)
(***************************************************************************)
Min(a, b) == IF a < b THEN a ELSE b

\* the first n entries of a list, n >= 0
FirstN(list, n) == SubSeq(list, 1, Min(n, Len(list)))

SearchResponded == handler = "search" /\ pc = "responded"

SearchSent == SearchResponded /\ res.status = 200

\* the key under which each entry of a facet of the envelope was stored
TagNames(entries) == [i \in 1..Len(entries) |-> entries[i].name]
AuthorKeys(entries) == [i \in 1..Len(entries) |-> entries[i].id]
SeriesKeys(entries) == [i \in 1..Len(entries) |-> entries[i].series]

\* the references of one facet over the whole scan, in scan order
RECURSIVE FacetRefs(_, _, _)
FacetRefs(libraryItems, facet, i) ==
    IF i > Len(libraryItems) THEN <<>>
    ELSE libraryItems[i].queryResult[facet] \o FacetRefs(libraryItems, facet, i + 1)

Occurrences(list, x) == Cardinality({i \in 1..Len(list) : list[i] = x})

FirstOccurrence(list, x) == CHOOSE i \in 1..Len(list) :
                                list[i] = x /\ \A j \in 1..(i - 1) : list[j] # x

\* the library items with every reference to key u taken out of one facet
WithoutRef(libraryItems, facet, u) ==
    [i \in 1..Len(libraryItems) |->
        [libraryItems[i] EXCEPT !.queryResult[facet] = SelectSeq(@, LAMBDA k : k # u)]]

\* C1: every facet of the envelope lists its entries in the order in which
\* their keys were first inserted during the scan, and holds exactly the first
\* N of that order (N the requested cap, taken when it is not negative), for
\* every key string.
C1_FacetsInInsertionOrder ==
    (SearchSent /\ maxResults(req.query) >= 0) =>
        LET n == maxResults(req.query)
        IN  /\ res.body.items = FirstN(local.itemMatches, n)
            /\ TagNames(res.body.tags) = FirstN(local.tagMatches.keys, n)
            /\ AuthorKeys(res.body.authors) = FirstN(local.authorMatches.keys, n)
            /\ SeriesKeys(res.body.series) = FirstN(local.seriesMatches.keys, n)
            /\ TagNames(res.body.narrators) = FirstN(local.narratorMatches.keys, n)

\* C2: without a query string (missing or empty) the outcome is the 400
\* response alone: no item is scanned, no aggregate is built, no envelope sent.
C2_NoQueryIsBadRequest ==
    (SearchResponded /\ (req.query.q = undefined \/ req.query.q = <<>>)) =>
        /\ res.status = 400
        /\ local.scanned = 0
        /\ local = NewScan

C2_Witness ==
    /\ SearchResponded
    /\ req.query.q = <<>>
    /\ Len(req.libraryItems) = 2
    /\ req.libraryItems[1].queryResult.matchKey # undefined
    /\ req.libraryItems[2].queryResult.tags # <<>>
    /\ res.status = 400

\* C3: each of the five arrays of the envelope has at most N entries, N the
\* numeric limit of the request or 12 (a cap below zero allows no entry).
C3_FacetsCappedAtLimit ==
    SearchSent =>
        LET n == maxResults(req.query)
            cap == IF n < 0 THEN 0 ELSE n
        IN  /\ Len(res.body.items) <= cap
            /\ Len(res.body.tags) <= cap
            /\ Len(res.body.authors) <= cap
            /\ Len(res.body.series) <= cap
            /\ Len(res.body.narrators) <= cap

\* C4: for every author id of the canonical table, numBooks of its aggregate
\* is the number of author references with that id over the scan, and the
\* aggregates are listed by first occurrence (references A, B, A give A before
\* B with numBooks 2 for A).
C4_AuthorCountAndOrder ==
    SearchSent =>
        LET refs == FacetRefs(req.libraryItems, "authors", 1)
            authors == ObjectValues(local.authorMatches)
            Listed(id) == \E i \in 1..Len(authors) : authors[i].id = id
            Position(id) == CHOOSE i \in 1..Len(authors) : authors[i].id = id
        IN  \A A \in Database.authors :
              Occurrences(refs, A) > 0 =>
                /\ Listed(A)
                /\ authors[Position(A)].numBooks = Occurrences(refs, A)
                /\ \A B \in Database.authors :
                     (Occurrences(refs, B) > 0
                        /\ FirstOccurrence(refs, A) < FirstOccurrence(refs, B))
                     => (Listed(B) /\ Position(A) < Position(B))

\* the counting half of C4 alone
AuthorCountOnly ==
    SearchSent =>
        LET refs == FacetRefs(req.libraryItems, "authors", 1)
            authors == ObjectValues(local.authorMatches)
        IN  \A A \in Database.authors :
              Occurrences(refs, A) > 0 =>
                \E i \in 1..Len(authors) :
                   authors[i].id = A /\ authors[i].numBooks = Occurrences(refs, A)

\* the response to the same request over other library items
ResponseOver(libraryItems) ==
    respond(req.query, scan(Database, NewScan, libraryItems, 1))

\* C5: a series or author reference whose id is not in the canonical table
\* produces no aggregate entry, raises no error and leaves the response as it
\* is without that reference.
C5_UnresolvableReferenceSkipped ==
    (SearchResponded /\ ~noQueryString(req.query)) =>
        /\ \A u \in SeriesIds \ Database.series :
              Occurrences(FacetRefs(req.libraryItems, "series", 1), u) > 0 =>
                /\ ~HasOwn(local.seriesMatches, u)
                /\ res = ResponseOver(WithoutRef(req.libraryItems, "series", u))
        /\ \A u \in AuthorIds \ Database.authors :
              Occurrences(FacetRefs(req.libraryItems, "authors", 1), u) > 0 =>
                /\ ~HasOwn(local.authorMatches, u)
                /\ res = ResponseOver(WithoutRef(req.libraryItems, "authors", u))

\* the same for the ids that name no property of Object.prototype
UnresolvablePlainIdSkipped ==
    (SearchResponded /\ ~noQueryString(req.query)) =>
        /\ \A u \in (SeriesIds \ Database.series) \ ObjectPrototypeKeys :
              Occurrences(FacetRefs(req.libraryItems, "series", 1), u) > 0 =>
                /\ ~HasOwn(local.seriesMatches, u)
                /\ res = ResponseOver(WithoutRef(req.libraryItems, "series", u))
        /\ \A u \in (AuthorIds \ Database.authors) \ ObjectPrototypeKeys :
              Occurrences(FacetRefs(req.libraryItems, "authors", 1), u) > 0 =>
                /\ ~HasOwn(local.authorMatches, u)
                /\ res = ResponseOver(WithoutRef(req.libraryItems, "authors", u))

\* the entries of the items facet for the items of a list that have a
\* matchKey, in the order of the list
RECURSIVE MatchesOf(_, _)
MatchesOf(libraryItems, i) ==
    IF i > Len(libraryItems) THEN <<>>
    ELSE (IF libraryItems[i].queryResult.matchKey # undefined
          THEN <<[libraryItem |-> libraryItems[i].id,
                  matchKey |-> libraryItems[i].queryResult.matchKey,
                  matchText |-> libraryItems[i].queryResult.matchText]>>
          ELSE <<>>) \o MatchesOf(libraryItems, i + 1)

\* the same items, each with a matchKey
allMatching(libraryItems) ==
    [i \in 1..Len(libraryItems) |->
        [libraryItems[i] EXCEPT !.queryResult.matchKey = <<"t">>]]

aggregatesOf(st) ==
    [seriesMatches |-> st.seriesMatches, authorMatches |-> st.authorMatches,
     tagMatches |-> st.tagMatches, narratorMatches |-> st.narratorMatches]

\* C14: before truncation the items facet of search holds one entry per item
\* whose match result has a matchKey, in scan order; an item without a
\* matchKey is absent from it, and its series, author, tag and narrator
\* references enter the aggregates exactly as those of a matching item
C14_ItemsFacetAndAggregates ==
    SearchSent =>
        /\ local.itemMatches = MatchesOf(req.libraryItems, 1)
        /\ aggregatesOf(local)
             = aggregatesOf(scan(Database, NewScan, allMatching(req.libraryItems), 1))

\* a sent envelope for a scan of an item without a matchKey whose references
\* were aggregated, followed by an item with one
C14_Witness ==
    /\ SearchSent
    /\ Len(req.libraryItems) = 2
    /\ req.libraryItems[1].queryResult.matchKey = undefined
    /\ req.libraryItems[1].queryResult.authors # <<>>
    /\ req.libraryItems[1].queryResult.tags # <<>>
    /\ req.libraryItems[2].queryResult.matchKey # undefined
    /\ Len(local.itemMatches) = 1
    /\ Len(local.authorMatches.keys) > 0
    /\ Len(local.tagMatches.keys) > 0

(***************************************************************************)
(* Properties of seriesSequenceList.                                       *)
(***************************************************************************)
SeqResponded == handler = "seriesSequenceList" /\ pc = "responded"

\* a numeric token whose value is no integer
IsFraction(seq) == isNumber(seq) /\ parseFloat(seq) % 10 # 0

IsIntegerToken(seq) == seq # <<>> /\ AllDigits(seq)

\* C9: a token whose numeric value is not an integer never extends a range:
\* it starts a range of its own and is never the end of a "start-end" range.
C9_FractionNeverExtends ==
    SeqResponded =>
        /\ \A i \in 1..Len(local.ranges) :
              (local.ranges[i].isNumber /\ local.ranges[i].start # local.ranges[i].end)
                  => local.ranges[i].end % 10 = 0
        /\ Cardinality({i \in 1..Len(local.sequences) : IsFraction(local.sequences[i])})
             = Cardinality({i \in 1..Len(local.ranges) :
                               local.ranges[i].isNumber /\ local.ranges[i].start % 10 # 0})

\* the integers start..end of a range, in tenths
RECURSIVE RangeMembers(_, _)
RangeMembers(start, end) ==
    IF start > end THEN <<>> ELSE <<start>> \o RangeMembers(start + 10, end)

RECURSIVE Expand(_)
Expand(ranges) ==
    IF ranges = <<>> THEN <<>>
    ELSE RangeMembers(ranges[1].start, ranges[1].end) \o Expand(Tail(ranges))

\* the text of a list of integer runs: the start alone or "start-end", joined
\* by ", "
RECURSIVE RunsText(_)
RunsText(ranges) ==
    IF ranges = <<>> THEN <<>>
    ELSE LET r == ranges[1]
             one == IF r.start = r.end THEN NatToString(r.start \div 10)
                    ELSE NatToString(r.start \div 10) \o <<"-">> \o NatToString(r.end \div 10)
         IN  IF Len(ranges) = 1 THEN one ELSE one \o <<",", " ">> \o RunsText(Tail(ranges))

\* C10: for an ascending list of integer tokens the ranges are the maximal
\* runs of consecutive integers in input order, each printed as its start
\* alone or as "start-end" and joined by ", "; 1,2,3,5,7,8 gives
\* "1-3, 5, 7-8" and the empty list gives the empty string.
C10_IntegerRuns ==
    (SeqResponded /\ \A i \in 1..Len(local.sequences) : IsIntegerToken(local.sequences[i])) =>
        /\ \A i \in 1..Len(local.ranges) : local.ranges[i].start <= local.ranges[i].end
        /\ Expand(local.ranges)
             = [i \in 1..Len(local.sequences) |-> 10 * DigitsValue(local.sequences[i])]
        /\ \A i \in 1..(Len(local.ranges) - 1) :
              local.ranges[i + 1].start # local.ranges[i].end + 10
        /\ res.body = RunsText(local.ranges)
        /\ (local.sequences = <<>> => res.body = <<>>)
        /\ (local.sequences = << <<"1">>, <<"2">>, <<"3">>, <<"5">>, <<"7">>, <<"8">> >>
              => res.body = <<"1", "-", "3", ",", " ", "5", ",", " ", "7", "-", "8">>)

C10_Witness ==
    /\ SeqResponded
    /\ local.sequences = << <<"1">>, <<"2">>, <<"3">>, <<"5">>, <<"7">>, <<"8">> >>
    /\ Len(local.ranges) = 3
    /\ res.body = <<"1", "-", "3", ",", " ", "5", ",", " ", "7", "-", "8">>

\* the position of a token in the list the reducer walked (the tokens of a
\* request differ from each other)
PositionOf(token) == CHOOSE i \in 1..Len(local.sequences) : local.sequences[i] = token

\* the entries of the rendered list, with those of the ranges that are no
\* numbers taken verbatim
RECURSIVE EntriesText(_)
EntriesText(ranges) ==
    IF ranges = <<>> THEN <<>>
    ELSE LET one == IF ranges[1].isNumber THEN rangeText(ranges[1]) ELSE ranges[1].start
         IN  IF Len(ranges) = 1 THEN one
             ELSE one \o <<",", " ">> \o EntriesText(Tail(ranges))

\* C17: a token that does not match the numeric pattern never extends a
\* range and is never extended: it is a range of its own, rendered verbatim
\* as one entry; the range before it ends at the token before it, and a
\* numeric token that follows it starts a new range, even when its value is
\* the successor of the last numeric token before
C17_TextTokenStandsAlone ==
    SeqResponded =>
        /\ Cardinality({k \in 1..Len(local.ranges) : ~local.ranges[k].isNumber})
             = Cardinality({i \in 1..Len(local.sequences) : ~isNumber(local.sequences[i])})
        /\ res.body = EntriesText(local.ranges)
        /\ \A k \in 1..Len(local.ranges) :
              ~local.ranges[k].isNumber =>
                 /\ local.ranges[k].start = local.ranges[k].end
                 /\ \E i \in 1..Len(local.sequences) :
                       local.sequences[i] = local.ranges[k].start
                 /\ LET i == PositionOf(local.ranges[k].start)
                    IN  /\ (i > 1) = (k > 1)
                        /\ (i > 1 /\ isNumber(local.sequences[i - 1]))
                              => /\ local.ranges[k - 1].isNumber
                                 /\ local.ranges[k - 1].end = parseFloat(local.sequences[i - 1])
                        /\ (i < Len(local.sequences)) = (k < Len(local.ranges))
                        /\ (i < Len(local.sequences) /\ isNumber(local.sequences[i + 1]))
                              => /\ local.ranges[k + 1].isNumber
                                 /\ local.ranges[k + 1].start = parseFloat(local.sequences[i + 1])

\* the tokens 2, 2a, 3, 3a have been compacted: 3 is the successor of 2 and
\* still starts a range of its own
C17_Witness ==
    /\ SeqResponded
    /\ local.sequences = << <<"2">>, <<"2", "a">>, <<"3">>, <<"3", "a">> >>
    /\ Len(local.ranges) = 4
    /\ res.body = <<"2", ",", " ", "2", "a", ",", " ", "3", ",", " ", "3", "a">>

(***************************************************************************)
(* Properties of pagination and of the sort.                               *)
(***************************************************************************)
\* the elements of L at the 0-based positions page*limit up to but excluding
\* page*limit + limit, in their order
Window(L, payload) ==
    IF payload.limit = 0 THEN L
    ELSE Pick(L, {p \in 1..Len(L) : /\ payload.page * payload.limit <= p - 1
                                    /\ p - 1 < payload.page * payload.limit + payload.limit},
              TRUE)

\* C6: pagination of a list with numeric page and limit gives the list
\* unchanged when limit is 0 and otherwise exactly the elements at positions
\* page*limit up to but excluding page*limit+limit, in order (the empty list
\* when the window lies outside the list), in getLibraryItems and in
\* getAllSeriesForLibrary
C6_PaginationWindow ==
    [][/\ getLibraryItems_Step3_5 =>
             local'.libraryItems = Window(local.libraryItems, local.payload)
       /\ getAllSeriesForLibrary =>
             res'.body.results = Window(local'.series, local'.payload)]_vars

\* the part of C6 that the code keeps: a page and a limit that are not
\* negative
PaginationWindowOfNaturals ==
    [][/\ (getLibraryItems_Step3_5 /\ local.payload.limit >= 0 /\ local.payload.page >= 0) =>
             local'.libraryItems = Window(local.libraryItems, local.payload)
       /\ (getAllSeriesForLibrary /\ local'.payload.limit >= 0 /\ local'.payload.page >= 0) =>
             res'.body.results = Window(local'.series, local'.payload)]_vars

\* a page of the middle of a list has been cut out
PageOfTheMiddle ==
    /\ handler = "getLibraryItems"
    /\ pc = "step4"
    /\ local.payload.limit = 1
    /\ local.payload.page = 1
    /\ local.payload.total = 3
    /\ Len(local.libraryItems) = 1

\* the chain and the context of the sort of the request in progress
chainOf(l) == sortArrayOf(l.payload, l.filterSeries, Database.serverSettings)
contextOf(l) == sortContext(l.payload, l.filterSeries, Database.serverSettings)

\* how an entry of the chain ranks a against b, in the entry's direction
entryOrder(entry, ctx, a, b) ==
    LET c == naturalCompare(keyText(extract(entry.fn, ctx, a)),
                            keyText(extract(entry.fn, ctx, b)))
    IN  IF entry.direction = "desc" THEN 0 - c ELSE c

\* for each two items of a list, how each entry of the chain ranks them
entryOrders(l, list) ==
    LET chain == chainOf(l)
        ctx == contextOf(l)
    IN  [p \in 1..Len(list) |-> [q \in 1..Len(list) |-> [k \in 1..Len(chain) |->
            entryOrder(chain[k], ctx, list[p], list[q])]]]

\* the entries on which the keys compare unequal, of a row of entryOrders
differingEntries(orders) == {k \in DOMAIN orders : orders[k] # 0}

Precedes(list, a, b) ==
    \E p, q \in 1..Len(list) : p < q /\ list[p] = a /\ list[q] = b

\* the step from the unsorted to the sorted list
sorted == handler = "getLibraryItems" /\ pc = "step3" /\ pc' = "step3_5"

\* C7: the sort of getLibraryItems is stable: two items whose keys are equal
\* for every entry of the sort chain keep their relative order of the input in
\* the output, whatever the direction
C7_SortIsStable ==
    [][sorted =>
         LET input == local.libraryItems
             orders == entryOrders(local, input)
         IN  \A i, j \in 1..Len(input) :
                (i < j /\ differingEntries(orders[i][j]) = {})
                => Precedes(local'.libraryItems, input[i], input[j])]_vars

\* a descending sort has moved items and left two tied items (in the order
\* of the request) in the output
C7_Witness ==
    /\ handler = "getLibraryItems"
    /\ pc = "step3_5"
    /\ req.query.filter = undefined
    /\ req.query.collapseseries = undefined
    /\ local.payload.sortDesc
    /\ chainOf(local) # <<>>
    /\ local.libraryItems # req.libraryItems
    /\ LET orders == entryOrders(local, req.libraryItems)
       IN  \E i, j \in 1..Len(req.libraryItems) :
              /\ i < j
              /\ differingEntries(orders[i][j]) = {}
              /\ Precedes(local.libraryItems, req.libraryItems[i], req.libraryItems[j])

\* C8: the sort chain is applied as a lexicographic composite order: of two
\* items the first entry of the chain on which their keys differ decides
\* which comes first, and a later entry only counts when all earlier ones
\* compare equal
C8_LexicographicChain ==
    [][sorted =>
         LET output == local'.libraryItems
             orders == entryOrders(local, output)
         IN  \A p, q \in 1..Len(output) :
                LET D == differingEntries(orders[p][q])
                IN  (p < q /\ D # {})
                    => orders[p][q][CHOOSE k \in D : \A m \in D : k <= m] < 0]_vars

\* two items tied on the first entry of a chain have been put in the order
\* of its second entry, against their order in the request
C8_Witness ==
    /\ handler = "getLibraryItems"
    /\ pc = "step3_5"
    /\ req.query.filter = undefined
    /\ req.query.collapseseries = undefined
    /\ Len(chainOf(local)) >= 2
    /\ LET orders == entryOrders(local, local.libraryItems)
       IN  \E p, q \in 1..Len(local.libraryItems) :
              /\ p < q
              /\ orders[p][q][1] = 0
              /\ orders[p][q][2] < 0
              /\ Precedes(req.libraryItems, local.libraryItems[q], local.libraryItems[p])

(***************************************************************************)
(* Properties of the sort chain.                                           *)
(***************************************************************************)
\* C11: resolving the sort key never raises an error: for every requested
\* sort path and every item the extractor returns a value and the sort
\* completes
C11_SortKeyNeverRaises ==
    ~(handler = "getLibraryItems" /\ pc = "rejected")

\* the part of C11 that the code keeps: a path whose segments all exist up
\* to the last one resolves without an error
ResolvablePathNeverRaises ==
    (handler = "getLibraryItems" /\ req.query.sort # str_xDotY) => pc # "rejected"

\* how the keys of one extractor rank a against b, ascending
keyOrder(fn, l, a, b) ==
    naturalCompare(keyText(extract(fn, contextOf(l), a)),
                   keyText(extract(fn, contextOf(l), b)))

\* the library holds books and the requested field name contains "author"
authorSort(l) ==
    /\ l.payload.mediaType = str_book
    /\ Truthy(l.payload.sortBy)
    /\ includes(l.payload.sortBy, str_author)

\* no tie-break by series for other media types and other fields: rows that
\* tie on the requested key (and on the collapsed name) keep their order
noSeriesTieBreak ==
    (Truthy(local.payload.sortBy) /\ ~authorSort(local))
    => \A i, j \in 1..Len(local.libraryItems) :
          LET a == local.libraryItems[i]
              b == local.libraryItems[j]
          IN  (/\ i < j
               /\ keyOrder("collapsedName", local, a, b) = 0
               /\ keyOrder("sortKey", local, a, b) = 0)
              => Precedes(local'.libraryItems, a, b)

\* C12: with books and a sort field whose name contains "author", any two
\* books whose author key compares equal are ordered by the sort title of
\* their first series, ascending, whatever the requested direction; there is
\* no such tie-break for other media types or other fields
C12_AuthorTieBreak ==
    [][sorted =>
         /\ authorSort(local)
            => \A p, q \in 1..Len(local'.libraryItems) :
                  LET a == local'.libraryItems[p]
                      b == local'.libraryItems[q]
                  IN  (p < q /\ keyOrder("sortKey", local, a, b) = 0)
                      => keyOrder("seriesSortTitle", local, a, b) <= 0
         /\ noSeriesTieBreak]_vars

\* C12 as the code keeps it: the tie-break by series title orders the rows
\* that tie on the author key and on the collapsed-series name, which comes
\* first in the chain when series are collapsed
C12_AuthorTieBreakAfterCollapsedName ==
    [][sorted =>
         /\ authorSort(local)
            => \A p, q \in 1..Len(local'.libraryItems) :
                  LET a == local'.libraryItems[p]
                      b == local'.libraryItems[q]
                  IN  (/\ p < q
                       /\ keyOrder("collapsedName", local, a, b) = 0
                       /\ keyOrder("sortKey", local, a, b) = 0)
                      => keyOrder("seriesSortTitle", local, a, b) <= 0
         /\ noSeriesTieBreak]_vars

\* a descending sort by author has put two books of one author in the
\* ascending order of their series titles, against their order in the request
C12_Witness ==
    /\ handler = "getLibraryItems"
    /\ pc = "step3_5"
    /\ req.query.filter = undefined
    /\ req.query.collapseseries = undefined
    /\ authorSort(local)
    /\ local.payload.sortDesc
    /\ \E p, q \in 1..Len(local.libraryItems) :
          LET a == local.libraryItems[p]
              b == local.libraryItems[q]
          IN  /\ p < q
              /\ keyOrder("sortKey", local, a, b) = 0
              /\ keyOrder("seriesSortTitle", local, a, b) < 0
              /\ Precedes(req.libraryItems, b, a)

\* the row stands for a collapsed series
isCollapsed(li) == isTruthy(prop(li, str_collapsedSeries))

\* the name of the collapsed series of a row, without its leading article
\* when the setting asks for it
collapsedNameOf(li) ==
    IF Database.serverSettings.sortingIgnorePrefix
    THEN prop(li, str_collapsedSeries).f[str_nameIgnorePrefix].v
    ELSE prop(li, str_collapsedSeries).f[str_name].v

\* series are collapsed and the requested field is neither the title nor
\* "sequence"
collapsedRowsLast(l) ==
    /\ l.payload.collapseseries
    /\ Truthy(l.payload.sortBy)
    /\ l.payload.sortBy # str_mediaMetadataTitle
    /\ l.payload.sortBy # str_sequence

\* how the requested field ranks a against b, in the requested direction
requestedOrder(l, a, b) ==
    IF l.payload.sortDesc
    THEN 0 - keyOrder("sortKey", l, a, b)
    ELSE keyOrder("sortKey", l, a, b)

\* C15: with series collapsed and a sort field that is neither the title nor
\* "sequence", every row that is not collapsed comes before every collapsed
\* row and the collapsed rows are in ascending order of their name (without
\* the leading article when the setting is on), in both directions; the
\* requested field orders only rows that tie on this first key
C15_CollapsedRowsLast ==
    [][sorted =>
         (collapsedRowsLast(local)
          => \A p, q \in 1..Len(local'.libraryItems) :
                LET a == local'.libraryItems[p]
                    b == local'.libraryItems[q]
                IN  p < q =>
                      /\ ~(isCollapsed(a) /\ ~isCollapsed(b))
                      /\ (isCollapsed(a) /\ isCollapsed(b))
                            => naturalCompare(collapsedNameOf(a), collapsedNameOf(b)) <= 0
                      /\ (~isCollapsed(a) /\ ~isCollapsed(b))
                            => requestedOrder(local, a, b) <= 0
                      /\ (/\ isCollapsed(a) /\ isCollapsed(b)
                          /\ naturalCompare(collapsedNameOf(a), collapsedNameOf(b)) = 0)
                            => requestedOrder(local, a, b) <= 0)]_vars

\* a sort has put a plain row before two collapsed rows in the order of
\* their names, although the requested field in the requested (descending)
\* direction ranks the plain row after the first of them
C15_Witness ==
    /\ handler = "getLibraryItems"
    /\ pc = "step3_5"
    /\ collapsedRowsLast(local)
    /\ Len(local.libraryItems) = 3
    /\ ~isCollapsed(local.libraryItems[1])
    /\ isCollapsed(local.libraryItems[2])
    /\ isCollapsed(local.libraryItems[3])
    /\ naturalCompare(collapsedNameOf(local.libraryItems[2]),
                      collapsedNameOf(local.libraryItems[3])) < 0
    /\ requestedOrder(local, local.libraryItems[1], local.libraryItems[2]) > 0
    /\ local.payload.sortDesc

\* the request filters within one series and names no sort field
seriesPage(l) == l.filterSeries # null /\ ~Truthy(l.payload.sortBy)

\* the sequence of a row within the filtered series, as the comparer sees it
sequenceOf(l, li) == keyText(prop(getSeries(li, l.filterSeries), str_sequence))

\* the name of the collapsed series of a collapsed row and the title of any
\* other row, without the leading article when the setting asks for it
nameOrTitleOf(li) ==
    IF isCollapsed(li) THEN collapsedNameOf(li)
    ELSE IF Database.serverSettings.sortingIgnorePrefix
    THEN reducePath(<<str_media, str_metadata, str_titleIgnorePrefix>>, li).v
    ELSE reducePath(<<str_media, str_metadata, str_title>>, li).v

\* C16: with a filter within one series and no sort field the rows are in
\* ascending order of their sequence in that series and, for equal
\* sequences, of the collapsed-series name of a collapsed row and the title
\* of any other row (the variants without the leading article when the
\* setting is on); nothing else orders them (rows equal on both keep their
\* order)
C16_SeriesPageOrder ==
    [][sorted =>
         (seriesPage(local)
          => /\ \A p, q \in 1..Len(local'.libraryItems) :
                   LET a == local'.libraryItems[p]
                       b == local'.libraryItems[q]
                       bySequence == naturalCompare(sequenceOf(local, a), sequenceOf(local, b))
                   IN  p < q =>
                         /\ bySequence <= 0
                         /\ bySequence = 0
                              => naturalCompare(nameOrTitleOf(a), nameOrTitleOf(b)) <= 0
             /\ \A i, j \in 1..Len(local.libraryItems) :
                   LET a == local.libraryItems[i]
                       b == local.libraryItems[j]
                   IN  (/\ i < j
                        /\ naturalCompare(sequenceOf(local, a), sequenceOf(local, b)) = 0
                        /\ naturalCompare(nameOrTitleOf(a), nameOrTitleOf(b)) = 0)
                       => Precedes(local'.libraryItems, a, b))]_vars

\* the sort of a series page has moved a row of a later sequence behind two
\* rows of one sequence, and put the plain one of these, whose title ranks
\* after the other's, before the collapsed one because of the name of its
\* collapsed series
C16_Witness ==
    /\ handler = "getLibraryItems"
    /\ pc = "step3_5"
    /\ seriesPage(local)
    /\ Len(local.libraryItems) = 3
    /\ req.libraryItems[1] = local.libraryItems[3]
    /\ ~isCollapsed(local.libraryItems[1])
    /\ isCollapsed(local.libraryItems[2])
    /\ sequenceOf(local, local.libraryItems[1]) = sequenceOf(local, local.libraryItems[2])
    /\ naturalCompare(reducePath(<<str_media, str_metadata, str_title>>, local.libraryItems[1]).v,
                      reducePath(<<str_media, str_metadata, str_title>>, local.libraryItems[2]).v) > 0

(***************************************************************************)
(* Properties of the total and of collapsing.                              *)
(***************************************************************************)
\* a step of getLibraryItems from one position to the next
stepped(from, to) == handler = "getLibraryItems" /\ pc = from /\ pc' = to

Occurrences_in(list, x) == Cardinality({i \in 1..Len(list) : list[i] = x})

IsPermutation(a, b) ==
    /\ Len(a) = Len(b)
    /\ \A i \in 1..Len(a) : Occurrences_in(a, a[i]) = Occurrences_in(b, a[i])

\* the request without its page and its limit
unpaged(r) == [r EXCEPT !.query.limit = undefined, !.query.page = undefined]

\* the working sets, with their totals, that filtering and collapsing can
\* give for a request
workingSets(r) ==
    {[libraryItems |-> l.libraryItems, total |-> l.payload.total] :
        l \in UNION {Step2(l1) : l1 \in Step1(r)}}

\* C18: the total of getLibraryItems is the size of the working set after
\* filtering and collapsing and before pagination; it does not depend on the
\* page and the limit, the rows sent are never more than it, and the sort
\* gives a permutation of the working set
C18_TotalIsWorkingSetSize ==
    [][/\ stepped("step2", "step3") =>
             /\ local'.payload.total = Len(local'.libraryItems)
             /\ [libraryItems |-> local'.libraryItems, total |-> local'.payload.total]
                   \in workingSets(unpaged(req))
       /\ stepped("step3", "step3_5") =>
             /\ IsPermutation(local'.libraryItems, local.libraryItems)
             /\ local'.payload.total = local.payload.total
       /\ stepped("step3_5", "step4") =>
             /\ local'.payload.total = local.payload.total
             /\ Len(local'.libraryItems) <= local.payload.total
       /\ stepped("step4", "responded") =>
             /\ res'.body.total = local.payload.total
             /\ Len(res'.body.results) <= res'.body.total]_vars

\* a second page of one row has been sent of a filtered, collapsed and
\* sorted working set of two rows, made from a library of three items
C18_Witness ==
    /\ handler = "getLibraryItems"
    /\ pc = "responded"
    /\ Len(req.libraryItems) = 3
    /\ Truthy(req.query.filter)
    /\ local.payload.collapseseries
    /\ Truthy(local.payload.sortBy)
    /\ res.body.total = 2
    /\ res.body.limit = 1
    /\ res.body.page = 1
    /\ Len(res.body.results) = 1
    /\ res.body.results[1].collapsedSeries.id # undefined

\* a list of exactly one row, which stands for a collapsed series
singleCollapsedRow(list) == Len(list) = 1 /\ isCollapsed(list[1])

\* what Step 2 does with the working set: without collapsing nothing; with
\* it, for some list the collapse gives, the list replaces the working set
\* and sets the total, unless it is a single collapsed row, and then the
\* working set and the total stay
collapsedListReplaces ==
    stepped("step2", "step3") =>
        IF local.payload.collapseseries
        THEN \E c \in collapseBookSeries(local.libraryItems, local.filterSeries) :
                IF singleCollapsedRow(c)
                THEN local' = local
                ELSE local' = [local EXCEPT !.libraryItems = c, !.payload.total = Len(c)]
        ELSE local' = local

\* C19: with collapsing requested the collapsed list replaces the working
\* set and sets the total unless it is exactly one collapsed-series row; then
\* the uncollapsed working set and its total stay, so the response never
\* consists of a single collapsed-series row alone
C19_NeverSingleCollapsedRow ==
    [][/\ collapsedListReplaces
       /\ stepped("step4", "responded") =>
             ~(/\ Len(res'.body.results) = 1
               /\ res'.body.results[1].collapsedSeries.id # undefined)]_vars

\* C19 as the code keeps it: the working set that leaves Step 2 is never a
\* single collapsed-series row, and neither is a response that is not cut to
\* a page (limit 0)
C19_WorkingSetNeverSingleCollapsedRow ==
    [][/\ collapsedListReplaces
       /\ stepped("step2", "step3") => ~singleCollapsedRow(local'.libraryItems)
       /\ (stepped("step4", "responded") /\ local.payload.limit = 0) =>
             ~(/\ Len(res'.body.results) = 1
               /\ res'.body.results[1].collapsedSeries.id # undefined)]_vars

\* collapsing was requested for two books of one series, the collapse could
\* only give the single row of that series or nothing, and the two books
\* have been sent with a total of 2
C19_Witness ==
    /\ handler = "getLibraryItems"
    /\ pc = "responded"
    /\ local.payload.collapseseries
    /\ Len(req.libraryItems) = 2
    /\ seriesIdsOf(req.libraryItems, null) = {SeriesS1}
    /\ \A i \in 1..2 : seriesOf(req.libraryItems[i]) # <<>>
    /\ req.query.filter = undefined
    /\ \E c \in collapseBookSeries(req.libraryItems, null) : singleCollapsedRow(c)
    /\ res.body.total = 2
    /\ Len(res.body.results) = 2
    /\ \A i \in 1..2 : res.body.results[i].collapsedSeries.id = undefined

(***************************************************************************)
(* Properties of invocations in flight together.                           *)
(***************************************************************************)
\* what getLibraryItems sends for request r when nothing else runs
itemsAlone(r, db) ==
    {[status |-> 200, body |-> Step4(Step3_5(Step3(l2, db.serverSettings)), db).payload] :
        l2 \in {l \in UNION {Step2(l1) : l1 \in Step1(r)} :
                   ~Step3Throws(l, db.serverSettings)}}

\* what search sends for request r when nothing else runs
searchAlone(r, db) ==
    IF noQueryString(r.query)
    THEN [status |-> 400, body |-> "No query string"]
    ELSE respond(r.query, scan(db, NewScan, r.libraryItems, 1))

respondsAsAlone(k) ==
    IF handler[k] = "search"
    THEN res[k] = searchAlone(req[k], Database)
    ELSE res[k] \in itemsAlone(req[k], Database)

\* the names of the shared numBooks properties that invocation k has read
\* and written (numBooks++ does both); nothing else shared is written
readAndWritten(k) ==
    IF handler[k] = "search" /\ pc[k] = "responded" /\ ~noQueryString(req[k].query)
    THEN local[k].inherited
    ELSE {}

\* C13: each of two invocations of getLibraryItems or search in flight
\* together, at whatever await they interleave and in whatever order the feed
\* lookups of the rows answer, responds as it does when run alone, and no
\* invocation writes state that another reads
C13_InterleavingIndependent ==
    /\ \A k \in Invocations : pc[k] = "responded" => respondsAsAlone(k)
    /\ \A j, k \in Invocations :
         j # k => readAndWritten(j) \cap readAndWritten(k) = {}

\* the responses alone do not depend on the interleaving
ResponsesAsAlone ==
    \A k \in Invocations : pc[k] = "responded" => respondsAsAlone(k)

\* two feed lookups of one invocation have answered in the reverse order of
\* their rows while another invocation was between two of its steps
LookupsAnsweredOutOfOrder ==
    \E j, k \in Invocations :
        /\ j # k
        /\ handler[j] = "getLibraryItems" /\ pc[j] = "awaitingRows"
        /\ Len(local[j].libraryItems) = 2
        /\ local[j].awaiting = {1}
        /\ awaitsFeed(local[j].libraryItems[2], local[j])
        /\ handler[k] = "getLibraryItems" /\ pc[k] = "step3"

====
